---- MODULE Spec2Model ----
(***************************************************************************)
(* A model of the ACE table decoder of NuclearData/DataListing             *)
(* (src/ace.py): the constructor ace.__init__ (open, header, XSS load,     *)
(* close) and the continuous-energy block dispatcher ce._processXSS with   *)
(* its block decoders.  Further specifications, each over the same state   *)
(* variables, cover the cross-section record (SpecXS), _secondary_dist on  *)
(* its own (SpecYield), the xsdir record and directory (SpecEntry,         *)
(* SpecXsdir; src/xsdir.py) and the listing batch (SpecBatch;              *)
(* src/listing.py).                                                        *)
(*                                                                         *)
(* XSS cells are floating-point numbers in the code; the model keeps them  *)
(* as integers, which is what every cell used as a count, locator or flag  *)
(* holds.  Indices are written as the code writes them: 1-based positions  *)
(* of the MCNP manual turned into 0-based Python indices by a trailing -1. *)
(***************************************************************************)
EXTENDS Integers, Sequences, FiniteSets, TLC

(***************************************************************************)
(* Python / numpy indexing.                                                *)
(***************************************************************************)
Min(a, b) == IF a < b THEN a ELSE b

Max(a, b) == IF a > b THEN a ELSE b

Abs(x) == IF x < 0 THEN -x ELSE x

\* xss[i] with a scalar index is defined for -len <= i < len ...
InRange(xss, i) == i >= -Len(xss) /\ i < Len(xss)

\* ... and raises IndexError otherwise (the reader checks InRange first).
Rd(xss, i) ==
  IF ~InRange(xss, i) THEN 0
  ELSE IF i >= 0 THEN xss[i + 1] ELSE xss[Len(xss) + i + 1]

\* xss[a:b]: a slice never raises; its ends are clipped to the array.
Clip(xss, k) == IF k < 0 THEN Max(0, Len(xss) + k) ELSE Min(k, Len(xss))

Slice(xss, a, b) ==
  IF Clip(xss, b) <= Clip(xss, a) THEN << >>
  ELSE SubSeq(xss, Clip(xss, a) + 1, Clip(xss, b))

\* zip(Energy, xs) stops at the end of the shorter array.
Zip(a, b) == [i \in 1..Min(Len(a), Len(b)) |-> <<a[i], b[i]>>]

\* dict[key] = value
Put(d, key, value) ==
  [k \in (DOMAIN d) \cup {key} |-> IF k = key THEN value ELSE d[k]]

(***************************************************************************)
(* The cross-section record.                                               *)
(***************************************************************************)
\* XS.__init__: EXS is built from zip(Energy, xs); no length check.
XS(mt, Energy, xs) ==
  [mt |-> mt,
   Energy |-> [i \in 1..Len(Zip(Energy, xs)) |-> Zip(Energy, xs)[i][1]],
   XS |-> [i \in 1..Len(Zip(Energy, xs)) |-> Zip(Energy, xs)[i][2]]]

(***************************************************************************)
(* Input files.  A file is a header (first-line tokens, ZAID, the NXS and  *)
(* JXS token lists) followed by the numbers of the XSS body.  The tables   *)
(* are laid out as Appendix F of the MCNP manual lays them out (the layout *)
(* the block decoders of src/ace.py read), with small distinct cell values *)
(* so that a cell read from the wrong place is seen.                       *)
(***************************************************************************)
MaxNES == 2

MaxNTR == 2

RECURSIVE Concat(_)
Concat(ss) == IF ss = << >> THEN << >> ELSE Head(ss) \o Concat(Tail(ss))

\* 1-based position, inside Concat(ss), of the first cell of ss[i]
RECURSIVE Offset(_, _)
Offset(ss, i) == IF i <= 1 THEN 1 ELSE Offset(ss, i - 1) + Len(ss[i - 1])

\* nubar records (Table F.5): tabular LNU=2, NR, NBT, INT, NE, E, nubar;
\* polynomial LNU=1, NC, C[0..NC]
TabNubarCells(v) == <<2, 1, v + 1, v + 2, 1, v + 3, v + 4>>

PolyNubarCells(v) == <<1, 1, v + 1, v + 2>>

NuCells(nu) ==
  CASE nu = "tab" -> TabNubarCells(60)
    [] nu = "poly" -> PolyNubarCells(60)
    [] nu = "both" -> <<-Len(TabNubarCells(60))>> \o TabNubarCells(60)
                        \o TabNubarCells(160)
    [] nu = "zero" -> <<0>>
    [] OTHER -> << >>

\* delayed nubar (JXS[24]), one precursor family (JXS[25]), its locator
\* (JXS[26]) and its energy distribution, a law 3 (JXS[27])
DnuCells == <<2, 0, 1, 261, 262>>

BddCells == <<263, 0, 1, 264, 265>>

DnedlCells == <<1>>

DnedCells == <<0, 3, 8, 0, 1, 266, 267, 268, 269>>

\* SIG record of reaction i on a grid of N energies: IE, NE, NE values
SigRecord(i, N) ==
  <<Min(i, N), N - Min(i, N) + 1>>
    \o [j \in 1..(N - Min(i, N) + 1) |-> 300 + 10 * i + j]

\* AND block: elastic is tabulated at two energies, the first isotropic
\* (LC = 0), the second tabular (LC = -6): JJ, NP, cos, pdf, cdf
AndCells == <<2, 11, 12, 0, -6, 1, 2, -1, 1, 5, 5, 0, 1>>

\* DLW record of reaction i: LNW, LAW, IDAT, NR, NBT, INT, NE, E, P and two
\* cells of law data at IDAT
DlwRecord(i, lnw, law) ==
  <<lnw, law, 11 * (i - 1) + 10, 1, 400 + 20 * i + 1, 400 + 20 * i + 2, 1,
    400 + 20 * i + 3, 400 + 20 * i + 4, 400 + 20 * i + 5, 400 + 20 * i + 6>>

\* The blocks of a table in file order.  p.jxs1 is where the ESZ block
\* starts, p.N the grid size, p.nu the form of the NU block, p.dn whether
\* delayed-neutron data is there, p.ntr the reactions, p.nr5 those with
\* secondary neutrons, p.hi the reaction whose MT is above 100, p.unk the
\* reaction whose law is p.lawX (the others have law 3), p.lnwAt the
\* reaction with a chained law.
TableBlocks(p) ==
  << [i \in 1..(p.jxs1 - 1) |-> 7],                                \* 1 pad
     [i \in 1..(5 * p.N) |-> 10 * ((i - 1) \div p.N + 1)
                               + ((i - 1) % p.N) + 1],             \* 2 ESZ
     NuCells(p.nu),                                                 \* 3 NU
     [i \in 1..p.ntr |-> IF i = p.hi THEN 102 + i ELSE 15 + i],     \* 4 MTR
     [i \in 1..p.ntr |-> 200 + i],                                  \* 5 LQR
     [i \in 1..p.ntr |-> i],                                        \* 6 TYR
     [i \in 1..p.ntr |->
        Offset([k \in 1..p.ntr |-> SigRecord(k, p.N)], i)],         \* 7 LSIG
     Concat([k \in 1..p.ntr |-> SigRecord(k, p.N)]),                \* 8 SIG
     [i \in 1..(p.nr5 + 1) |->
        IF i = 1 THEN 1 ELSE IF i % 2 = 0 THEN 0 ELSE -1],          \* 9 LAND
     AndCells,                                                      \* 10 AND
     [i \in 1..p.nr5 |-> 11 * (i - 1) + 1],                         \* 11 LDLW
     Concat([i \in 1..p.nr5 |->
        DlwRecord(i, IF i = p.lnwAt THEN 1 ELSE 0,
                  IF i = p.unk THEN p.lawX ELSE 3)]),               \* 12 DLW
     IF p.dn THEN DnuCells ELSE << >>,                              \* 13 DNU
     IF p.dn THEN BddCells ELSE << >>,                              \* 14 BDD
     IF p.dn THEN DnedlCells ELSE << >>,                            \* 15 DNEDL
     IF p.dn THEN DnedCells ELSE << >> >>                           \* 16 DNED

\* JXS[k] is the position of its block, 0 when the block is absent
Locator(p, b) ==
  IF TableBlocks(p)[b] = << >> THEN 0 ELSE Offset(TableBlocks(p), b)

TableXSS(p) == Concat(TableBlocks(p))

TableNXS(p) ==
  [k \in 1..16 |->
     CASE k = 1 -> Len(TableXSS(p))
       [] k = 2 -> 92235
       [] k = 3 -> p.N
       [] k = 4 -> p.ntr
       [] k = 5 -> p.nr5
       [] k = 8 -> IF p.dn THEN 1 ELSE 0
       [] k = 10 -> 92
       [] k = 11 -> 235
       [] OTHER -> 0]

TableJXS(p) ==
  [k \in 1..32 |->
     CASE k = 1 -> p.jxs1
       [] k \in 2..11 -> Locator(p, k + 1)
       [] k \in 24..27 -> Locator(p, k - 11)
       [] OTHER -> 0]

\* tables that vary the ESZ and NU blocks, every reaction being plain
GridParams ==
  {[jxs1 |-> j, N |-> n, nu |-> nu, dn |-> dn, ntr |-> t, nr5 |-> t,
    hi |-> 0, unk |-> 0, lawX |-> 77, lnwAt |-> 0] :
     j \in {1, 2}, n \in 1..MaxNES,
     nu \in {"none", "tab", "poly", "both", "zero"}, dn \in BOOLEAN,
     t \in 0..MaxNTR}

\* tables that vary the reactions and their secondary distributions
ReactionParams ==
  {[jxs1 |-> 1, N |-> MaxNES, nu |-> nu, dn |-> FALSE, ntr |-> t, nr5 |-> r,
    hi |-> h, unk |-> u, lawX |-> x, lnwAt |-> c] :
     nu \in {"none", "tab"}, t \in 0..MaxNTR, r \in 0..MaxNTR,
     h \in 0..MaxNTR, u \in 0..MaxNTR, x \in {2, 5, 77}, c \in {0, 1}}

WellFormedParams ==
  {p \in GridParams \cup ReactionParams :
     /\ p.nr5 <= p.ntr /\ p.hi <= p.ntr
     /\ p.unk <= p.nr5 /\ p.lnwAt <= p.nr5
     /\ (p.unk = 0 => p.lawX = 77)}

\* The table every malformed-header input carries
PlainTable ==
  [jxs1 |-> 1, N |-> 1, nu |-> "none", dn |-> FALSE, ntr |-> 0, nr5 |-> 0,
   hi |-> 0, unk |-> 0, lawX |-> 77, lnwAt |-> 0]

\* words: the number of tokens on the first line (0: the line is empty or
\* past the end of the file); zaidDot: the ZAID has its '.'; zaNumeric: its
\* ZA part is an integer; scalarsOK: AWR, TZ (and NCOMMENTS) parse; nxs,
\* jxs: the integers the NXS and JXS lines hold, up to the first token that
\* is no integer (badInt says which list has one) or the end of the file;
\* body: the numbers that follow the header.
GoodInputs ==
  {[words |-> w, zaidDot |-> TRUE, zaNumeric |-> zn, za |-> 92235,
    scalarsOK |-> TRUE, badInt |-> "none", nxs |-> TableNXS(p),
    jxs |-> TableJXS(p), body |-> TableXSS(p), headerOnly |-> FALSE] :
     w \in {3, 4}, zn \in {TRUE}, p \in WellFormedParams}

\* files whose first lines vary, the directories being whole
FirstLineInputs ==
  {[words |-> w, zaidDot |-> zd, zaNumeric |-> zn, za |-> 92235,
    scalarsOK |-> so, badInt |-> "none", nxs |-> TableNXS(PlainTable),
    jxs |-> TableJXS(PlainTable), body |-> TableXSS(PlainTable),
    headerOnly |-> FALSE] :
     w \in 0..4, zd \in BOOLEAN, zn \in BOOLEAN, so \in BOOLEAN}

\* files whose directories or body are cut short or hold a bad token
DirectoryInputs ==
  {[words |-> w, zaidDot |-> TRUE, zaNumeric |-> TRUE, za |-> 92235,
    scalarsOK |-> TRUE, badInt |-> bi,
    nxs |-> SubSeq(TableNXS(PlainTable), 1, nn),
    jxs |-> SubSeq(TableJXS(PlainTable), 1, nj),
    body |-> SubSeq(TableXSS(PlainTable), 1,
                    Len(TableXSS(PlainTable)) - miss),
    headerOnly |-> ho] :
     w \in {3, 4}, bi \in {"none", "IZ", "NXS", "JXS"}, nn \in {0, 8, 16},
     nj \in {0, 31, 32}, miss \in {0, 1}, ho \in BOOLEAN}

Inputs == GoodInputs \cup FirstLineInputs \cup DirectoryInputs

(***************************************************************************)
(* State.                                                                  *)
(***************************************************************************)
VARIABLES
  inp,        \* the file being decoded (never changes)
  pc,         \* where the decode stands
  fileOpen,   \* self._file is open
  opens,      \* how many times open() was called
  obj,        \* the attributes of the ace object
  warned,     \* the warnings emitted through warnings.warn, in order
  blocks,     \* the block decoders called so far, with whether they decoded
  err         \* the exception that ended the decode, if any

vars == <<inp, pc, fileOpen, opens, obj, warned, blocks, err>>

NoErr == [kind |-> "", at |-> ""]

NoNubar ==
  [nr |-> 0, NBT |-> << >>, INT |-> << >>, ne |-> 0, E |-> << >>,
   nubar |-> << >>, secondary_dist |-> << >>]

\* has: the attributes that have been assigned; none: those assigned None
NewObject ==
  [has |-> {}, none |-> {}, isNewStyle |-> FALSE, Z |-> 0, A |-> 0,
   NXS |-> << >>, JXS |-> << >>, XSS |-> << >>,
   energies |-> << >>, xs |-> << >>,
   prompt_nubar |-> NoNubar, total_nubar |-> NoNubar,
   delayed_nubar |-> NoNubar,
   mt |-> << >>, Q_values |-> << >>, TYR |-> << >>, LOCA |-> << >>,
   LOCB |-> << >>, LOCC |-> << >>,
   angular_dist |-> << >>, secondary_dist |-> << >>]

Init ==
  /\ inp \in Inputs
  /\ pc = "new"
  /\ fileOpen = FALSE
  /\ opens = 0
  /\ obj = NewObject
  /\ warned = << >>
  /\ blocks = << >>
  /\ err = NoErr

\* an exception leaves the method: nothing after the raise is executed
Raise(kind) ==
  /\ pc' = "error"
  /\ err' = [kind |-> kind, at |-> pc]

(***************************************************************************)
(* ace.__init__                                                            *)
(***************************************************************************)
\* self._file = open(self.filename, 'r') and the skip to start_line
Open ==
  /\ pc = "new"
  /\ fileOpen' = TRUE
  /\ opens' = opens + 1
  /\ pc' = "opened"
  /\ UNCHANGED <<inp, obj, warned, blocks, err>>

\* the first exception _processHeader meets, "" when it meets none
HeaderError(f) ==
  IF f.words > 3
  THEN \* _processOldStyleHeader
       CASE ~f.zaidDot -> "ValueError"
         [] ~f.scalarsOK -> "ValueError"
         [] f.badInt = "IZ" -> "ValueError"
         [] OTHER -> ""
  ELSE \* _processNewStyleHeader
       CASE f.words < 2 -> "IndexError"
         [] ~f.zaidDot -> "ValueError"
         [] f.words < 3 -> "IndexError"
         [] ~f.scalarsOK -> "ValueError"
         [] f.badInt = "IZ" -> "ValueError"
         [] OTHER -> ""

\* int(self.zaid/1000) and int(self.zaid-self.Z*1000)
ZofZA(za) == za \div 1000

AofZA(za) == za - ZofZA(za) * 1000

\* the attributes the header leaves on the object
HeaderFields(f, o) ==
  IF f.words > 3
  THEN [o EXCEPT !.isNewStyle = FALSE,
                 !.has = @ \cup {"Z", "A", "NXS", "JXS"},
                 !.none = IF f.zaNumeric THEN @ ELSE @ \cup {"Z", "A"},
                 !.Z = IF f.zaNumeric THEN ZofZA(f.za) ELSE 0,
                 !.A = IF f.zaNumeric THEN AofZA(f.za) ELSE 0,
                 !.NXS = f.nxs, !.JXS = f.jxs]
  ELSE [o EXCEPT !.isNewStyle = TRUE,
                 !.has = @ \cup {"NXS", "JXS"},
                 !.NXS = f.nxs, !.JXS = f.jxs]

\* self._processHeader().  numpy.fromstring stops at a token that is no
\* integer and returns what it parsed so far, or raises ValueError: which
\* of the two depends on the numpy release.
ProcessHeader ==
  /\ pc = "opened"
  /\ \/ /\ HeaderError(inp) # ""
        /\ Raise(HeaderError(inp))
        /\ UNCHANGED obj
     \/ /\ HeaderError(inp) = ""
        /\ inp.badInt \in {"NXS", "JXS"}
        /\ Raise("ValueError")
        /\ UNCHANGED obj
     \/ /\ HeaderError(inp) = ""
        /\ obj' = HeaderFields(inp, obj)
        /\ pc' = "header"
        /\ UNCHANGED err
  /\ UNCHANGED <<inp, fileOpen, opens, warned, blocks>>

\* numpy.fromfile(self._file, sep=' ', count=n): at most n numbers, fewer
\* when the stream ends first
FromFile(body, n) == SubSeq(body, 1, Min(n, Len(body)))

\* the XSS load, skipped when headerOnly
ReadXSS ==
  /\ pc = "header"
  /\ IF inp.headerOnly
     THEN pc' = "loaded" /\ UNCHANGED <<obj, err>>
     ELSE IF Len(obj.NXS) = 0
     THEN Raise("IndexError") /\ UNCHANGED obj
     ELSE /\ obj' = [obj EXCEPT !.XSS = FromFile(inp.body, obj.NXS[1]),
                                !.has = @ \cup {"XSS"}]
          /\ pc' = "loaded"
          /\ UNCHANGED err
  /\ UNCHANGED <<inp, fileOpen, opens, warned, blocks>>

\* self._file.close(), the last statement of the constructor
Close ==
  /\ pc = "loaded"
  /\ fileOpen' = FALSE
  /\ pc' = "returned"
  /\ UNCHANGED <<inp, opens, obj, warned, blocks, err>>

(***************************************************************************)
(* Laws and secondary distributions.                                       *)
(***************************************************************************)
\* the keys of the registry _laws
Laws == {1, 2, 3, 4, 5, 7, 9, 11, 22, 24, 44, 61, 66, 67}

\* the laws whose class keeps _Law_base._process
BaseLaws == {2, 5, 11, 22, 24}

Warning(kind, arg) == [kind |-> kind, arg |-> arg]

\* _Law_base.__init__ with _Law_base._process: the object keeps the law id
\* and no data, and one warning is emitted
LawBase(law) ==
  [err |-> "",
   warn |-> <<Warning("No function has been defined for law", law)>>,
   val |-> [law |-> law, process |-> "_Law_base", L |-> << >>]]

\* Law3._process: self.L = xss[LDAT-1:(LDAT+2)-1]
Law3(LDAT, xss) ==
  [err |-> "", warn |-> << >>,
   val |-> [law |-> 3, process |-> "Law3",
            L |-> Slice(xss, LDAT - 1, (LDAT + 2) - 1)]]

\* a registry lookup without a default, _laws[_LAW]: an id that is no key
\* raises KeyError (the lookup the code does not make)
LawClassNoDefault(law) ==
  IF law \in Laws THEN (IF law \in BaseLaws THEN "_Law_base" ELSE "Law")
  ELSE "KeyError"

\* _laws.get(_LAW, _Law_base): whose _process decodes the law.  A law id
\* that is no key of the registry gets the default, _Law_base.
LawClass(law) ==
  IF law \in Laws THEN (IF law \in BaseLaws THEN "_Law_base" ELSE "Law")
  ELSE "_Law_base"

\* _laws.get(_LAW, _Law_base)(ldat, LDIS, self.XSS, law=_LAW, A=self.A);
\* a lookup that gives no class raises KeyError
LawPayload(law, ldat, LDIS, xss) ==
  CASE LawClass(law) = "KeyError" ->
         [err |-> "KeyError", warn |-> << >>,
          val |-> [law |-> law, process |-> "", L |-> << >>]]
    [] LawClass(law) = "_Law_base" -> LawBase(law)
    [] law = 3 -> Law3(ldat, xss)

\* _energyDependentNeutronYield(KY)
EnergyDependentNeutronYield(xss, KY) ==
  LET NR == Rd(xss, KY - 1)
      NE == Rd(xss, (KY + 1 + 2 * NR) - 1)
  IN  [err |-> IF InRange(xss, KY - 1)
                    /\ InRange(xss, (KY + 1 + 2 * NR) - 1)
               THEN "" ELSE "IndexError",
       val |-> [NBT |-> Slice(xss, (KY + 1) - 1, (KY + 1 + NR) - 1),
                INT |-> Slice(xss, (KY + 1 + NR) - 1, (KY + 1 + 2 * NR) - 1),
                energy |-> Slice(xss, (KY + 2 + 2 * NR) - 1,
                                 (KY + 2 + 2 * NR + NE) - 1),
                yields |-> Slice(xss, (KY + 2 + 2 * NR + NE) - 1,
                                 (KY + 2 + 2 * NR + 2 * NE) - 1)]]

NoYieldTable ==
  [NBT |-> << >>, INT |-> << >>, energy |-> << >>, yields |-> << >>]

\* the 'yield' entry: the table when TYR < 0, abs(TYR) otherwise
Yield(xss, JED, TYR) ==
  IF TYR < 0
  THEN [err |-> EnergyDependentNeutronYield(xss, JED + Abs(TYR) - 101).err,
        val |-> [dependent |-> TRUE, value |-> 0,
                 table |-> EnergyDependentNeutronYield(
                             xss, JED + Abs(TYR) - 101).val]]
  ELSE [err |-> "",
        val |-> [dependent |-> FALSE, value |-> Abs(TYR),
                 table |-> NoYieldTable]]

\* _secondary_dist(locc, LDIS, JED, TYR): the exception it raises ("" for
\* none), the warnings it emits before that, and the dictionary it returns
SecondaryDist(xss, locc, LDIS, JED, TYR) ==
  LET LNW == Rd(xss, (LDIS + locc - 1) - 1)
      LAW == Rd(xss, (LDIS + locc) - 1)
      IDAT == Rd(xss, (LDIS + locc + 1) - 1)
      NR == Rd(xss, (LDIS + locc + 2) - 1)
      K1 == LDIS + locc + 3
      K2 == LDIS + locc + 3 + 2 * NR
      ne == Rd(xss, K2 - 1)
      K3 == K2 + 1
      ldat == LDIS + IDAT - 1
      chained == IF InRange(xss, (LDIS + locc - 1) - 1) /\ LNW # 0
                 THEN <<Warning("Haven't parsed data for more than one law",
                                0)>>
                 ELSE << >>
      envelopeOK == /\ InRange(xss, (LDIS + locc - 1) - 1)
                    /\ InRange(xss, (LDIS + locc) - 1)
                    /\ InRange(xss, (LDIS + locc + 1) - 1)
                    /\ InRange(xss, (LDIS + locc + 2) - 1)
                    /\ InRange(xss, K2 - 1)
      payload == LawPayload(LAW, ldat, LDIS, xss)
      yield == Yield(xss, JED, TYR)
  IN  [err |-> IF ~envelopeOK THEN "IndexError"
               ELSE IF payload.err # "" THEN payload.err
               ELSE yield.err,
       warn |-> IF envelopeOK THEN chained \o payload.warn ELSE chained,
       val |-> [LNW |-> LNW, law |-> LAW, IDAT |-> IDAT,
                NBT |-> Slice(xss, (K1 + 0 * NR) - 1, (K1 + 1 * NR) - 1),
                INT |-> Slice(xss, (K1 + 1 * NR) - 1, (K1 + 2 * NR) - 1),
                energy |-> Slice(xss, (K3 + 0 * ne) - 1, (K3 + 1 * ne) - 1),
                probability |->
                  Slice(xss, (K3 + 1 * ne) - 1, (K3 + 2 * ne) - 1),
                LDAT |-> payload.val,
                yield |-> yield.val]]

(***************************************************************************)
(* NU block.                                                               *)
(***************************************************************************)
\* the namedtuple _tab_nubar() builds at KNU, nr and ne being read.  The
\* first slice, named _INT, starts at the NR cell; the tuple is built as
\* nubar_tup(nr, _NBT, _INT, ne, E, nu, None).
TabNubarTuple(xss, KNU, nr, ne) ==
  [nr |-> nr,
   NBT |-> Slice(xss, (KNU + (2 - 1) + 1 * nr) - 1,
                 (KNU + (2 - 1) + 2 * nr) - 1),
   INT |-> Slice(xss, (KNU + (2 - 1) + 0 * nr) - 1,
                 (KNU + (2 - 1) + 1 * nr) - 1),
   ne |-> ne,
   E |-> Slice(xss, ((KNU + 2 + 2 * nr + 1) + 0 * ne) - 1,
               ((KNU + 2 + 2 * nr + 1) + 1 * ne) - 1),
   nubar |-> Slice(xss, ((KNU + 2 + 2 * nr + 1) + 1 * ne) - 1,
                   ((KNU + 2 + 2 * nr + 1) + 2 * ne) - 1),
   secondary_dist |-> << >>]

\* _tab_nubar() at KNU: nr = XSS[(KNU+1)-1], ne = XSS[(KNU+2+2*nr)-1]
TabNubar(xss, KNU) ==
  [err |-> IF /\ InRange(xss, (KNU + 1) - 1)
              /\ InRange(xss, (KNU + 2 + 2 * Rd(xss, (KNU + 1) - 1)) - 1)
           THEN "" ELSE "IndexError",
   isNone |-> FALSE,
   val |-> TabNubarTuple(xss, KNU, Rd(xss, (KNU + 1) - 1),
                         Rd(xss, (KNU + 2 + 2 * Rd(xss, (KNU + 1) - 1)) - 1))]

\* _poly_nubar(): its body is "pass", it returns None
PolyNubar == [err |-> "", isNone |-> TRUE, val |-> NoNubar]

\* _extract_nubar() with the enclosing KNU: None unless LNU is 1 or 2
ExtractNubar(xss, KNU) ==
  IF ~InRange(xss, KNU - 1)
  THEN [err |-> "IndexError", isNone |-> TRUE, val |-> NoNubar]
  ELSE CASE Rd(xss, KNU - 1) = 1 -> PolyNubar
         [] Rd(xss, KNU - 1) = 2 -> TabNubar(xss, KNU)
         [] OTHER -> [err |-> "", isNone |-> TRUE, val |-> NoNubar]

\* the dictionary D of one precursor family at K
PrecursorRecord(xss, K, NR, NE, sd) ==
  [decay_constant |-> Rd(xss, (K + 0) - 1),
   nr |-> NR,
   NBT |-> Slice(xss, (K + 2 + 0 * NR) - 1, (K + 2 + 1 * NR) - 1),
   INT |-> Slice(xss, (K + 2 + 1 * NR) - 1, (K + 2 + 2 * NR) - 1),
   ne |-> NE,
   energy |-> Slice(xss, (K + 3 + 2 * NR + 0 * NE) - 1,
                    (K + 3 + 2 * NR + 1 * NE) - 1),
   probability |-> Slice(xss, (K + 3 + 2 * NR + 1 * NE) - 1,
                         (K + 3 + 2 * NR + 2 * NE) - 1),
   secondary_dist |-> sd]

\* the scalar reads of one family are inside the array
PrecursorOK(xss, K) ==
  /\ InRange(xss, (K + 0) - 1)
  /\ InRange(xss, (K + 1) - 1)
  /\ InRange(xss, (K + 2 + 2 * Rd(xss, (K + 1) - 1)) - 1)

\* the loop of _delayed_nubar over the precursor families, K running from
\* JXS[25]; acc holds the warnings and the families so far
RECURSIVE Precursors(_, _, _, _, _)
RECURSIVE PrecursorNext(_, _, _, _, _, _, _, _)
PrecursorNext(xss, locs, K, LDIS, acc, NR, NE, sd) ==
  IF sd.err # ""
  THEN [err |-> sd.err, warn |-> acc.warn \o sd.warn, val |-> acc.val]
  ELSE Precursors(xss, Tail(locs), K + 3 + 2 * NR + 2 * NE, LDIS,
                  [err |-> "", warn |-> acc.warn \o sd.warn,
                   val |-> Append(acc.val,
                                  PrecursorRecord(xss, K, NR, NE, sd.val))])

Precursors(xss, locs, K, LDIS, acc) ==
  IF locs = << >> THEN acc
  ELSE IF ~PrecursorOK(xss, K) THEN [acc EXCEPT !.err = "IndexError"]
  ELSE PrecursorNext(xss, locs, K, LDIS, acc, Rd(xss, (K + 1) - 1),
                     Rd(xss, (K + 2 + 2 * Rd(xss, (K + 1) - 1)) - 1),
                     SecondaryDist(xss, Head(locs), LDIS, 0, 0))

\* _LDLWBlock(LED, NMT)
LDLWBlock(xss, LED, NMT) == Slice(xss, LED - 1, (LED - 1) + NMT)

\* the end of _delayed_nubar(): list(dnb_dist) with the families put last
DelayedTuple(dnb_dist, fam) ==
  IF dnb_dist.err # ""
  THEN [err |-> dnb_dist.err, warn |-> << >>, val |-> NoNubar]
  ELSE IF fam.err # ""
  THEN [err |-> fam.err, warn |-> fam.warn, val |-> NoNubar]
  ELSE IF dnb_dist.isNone  \* list(None)
  THEN [err |-> "TypeError", warn |-> fam.warn, val |-> NoNubar]
  ELSE [err |-> "", warn |-> fam.warn,
        val |-> [dnb_dist.val EXCEPT !.secondary_dist = fam.val]]

\* _delayed_nubar().  Its "KNU = self.JXS[24]" binds a name local to
\* _delayed_nubar: _extract_nubar reads the KNU of _NUBlock, which is the
\* one of the last nubar extracted (knu), or is unbound (bound = FALSE).
DelayedNubar(o, knu, bound) ==
  IF ~bound THEN [err |-> "NameError", warn |-> << >>, val |-> NoNubar]
  ELSE DelayedTuple(ExtractNubar(o.XSS, knu),
                    Precursors(o.XSS,
                               LDLWBlock(o.XSS, o.JXS[26], o.NXS[8]),
                               o.JXS[25], o.JXS[27],
                               [err |-> "", warn |-> << >>, val |-> << >>]))

\* the NU block exists only if JXS[2] != 0
NUExists(o) == o.JXS[2] # 0

\* the delayed nubar is decoded only if JXS[24] > 0
DelayedExists(o) == o.JXS[24] > 0

\* the attribute assignment "self.<name> = r" of a nubar result r
SetNubar(o, name, r) ==
  [o EXCEPT !.has = @ \cup {name},
            !.none = IF r.isNone THEN @ \cup {name} ELSE @ \ {name},
            ![name] = r.val]

\* "self.delayed_nubar = dn", dn being what _delayed_nubar() gave
StoreDelayed(o, dn) ==
  [err |-> dn.err, warn |-> dn.warn,
   obj |-> IF dn.err # "" THEN o
           ELSE SetNubar(o, "delayed_nubar",
                         [isNone |-> FALSE, val |-> dn.val])]

\* the "Delayed nubar" lines of _NUBlock, on the object o the prompt and
\* total lines left
NUDelayed(o, knu, bound) ==
  IF DelayedExists(o) THEN StoreDelayed(o, DelayedNubar(o, knu, bound))
  ELSE [err |-> "", warn |-> << >>,
        obj |-> SetNubar(o, "delayed_nubar",
                         [isNone |-> TRUE, val |-> NoNubar])]

\* self.prompt_nubar = self.total_nubar = _extract_nubar(), one being
\* its result
NUOne(o, one, knu) ==
  IF one.err # "" THEN [err |-> one.err, warn |-> << >>, obj |-> o]
  ELSE NUDelayed(SetNubar(SetNubar(o, "total_nubar", one),
                          "prompt_nubar", one), knu, TRUE)

\* self.prompt_nubar = _extract_nubar() and, with the next KNU,
\* self.total_nubar = _extract_nubar()
NUBoth(o, prompt, total, knu) ==
  IF prompt.err # "" THEN [err |-> prompt.err, warn |-> << >>, obj |-> o]
  ELSE IF total.err # ""
  THEN [err |-> total.err, warn |-> << >>,
        obj |-> SetNubar(o, "prompt_nubar", prompt)]
  ELSE NUDelayed(SetNubar(SetNubar(o, "prompt_nubar", prompt),
                          "total_nubar", total), knu, TRUE)

\* _NUBlock() when the block exists, x being XSS[JXS[2]-1]: the exception,
\* the warnings and the object it leaves
NUSwitch(o, K, x) ==
  IF x > 0 THEN NUOne(o, ExtractNubar(o.XSS, K), K)
  ELSE IF x < 0
  THEN NUBoth(o, ExtractNubar(o.XSS, K + 1),
              ExtractNubar(o.XSS, K + Abs(x) + 1), K + Abs(x) + 1)
  ELSE NUDelayed(o, K, FALSE)

NUDecode(o) ==
  IF ~InRange(o.XSS, o.JXS[2] - 1)
  THEN [err |-> "IndexError", warn |-> << >>, obj |-> o]
  ELSE NUSwitch(o, o.JXS[2], Rd(o.XSS, o.JXS[2] - 1))

(***************************************************************************)
(* ESZ, MTR, LQR, TYR, LSIG, SIG, LAND, AND, LDLW, DLW.                    *)
(***************************************************************************)
\* self._XSS[ start_index:N ] with start_index = JXS[1]-1 and N = NXS[3]
EszEnergies(o) == Slice(o.XSS, o.JXS[1] - 1, o.NXS[3])

\* the k-th array after the energies (total, absorption, elastic, heating)
EszArray(o, k) ==
  Slice(o.XSS, (o.JXS[1] - 1) + k * o.NXS[3],
        (o.JXS[1] - 1) + (k + 1) * o.NXS[3])

\* _ESZBlock(): energies and xs[1], xs[102], xs[2], xs[301] (the entries
\* 'total', 'abs', 'elastic', 'heating' are the same records)
ESZDecode(o) ==
  [o EXCEPT
     !.has = @ \cup {"energies"},
     !.energies = EszEnergies(o),
     !.xs = Put(Put(Put(Put(@,
              1, XS(1, EszEnergies(o), EszArray(o, 1))),
              102, XS(102, EszEnergies(o), EszArray(o, 2))),
              2, XS(2, EszEnergies(o), EszArray(o, 3))),
              301, XS(301, EszEnergies(o), EszArray(o, 4)))]

\* MTR, LQR, TYR, LSIG exist if NXS[4] != 0
ReactionsExist(o) == o.NXS[4] # 0

\* self._XSS[ (L-1):(L-1)+NXS[4] ] of _MTRBlock, _LQRBlock, _TYRBlock and
\* _LSIGBlock, L being JXS[3], JXS[4], JXS[5], JXS[6]
ReactionArray(o, j) == Slice(o.XSS, o.JXS[j] - 1, (o.JXS[j] - 1) + o.NXS[4])

\* the energy array of one reaction in _SIGBlock: a slice of XSS
SigEnergy(o, loc) ==
  Slice(o.XSS, Rd(o.XSS, (o.JXS[7] + loc - 1) - 1) - 1,
        (Rd(o.XSS, (o.JXS[7] + loc - 1) - 1) - 1)
          + Rd(o.XSS, (o.JXS[7] + loc - 1)))

\* the values of one reaction in _SIGBlock
SigValues(o, loc) ==
  Slice(o.XSS, o.JXS[7] + loc + 1 - 1,
        (o.JXS[7] + loc + 1 - 1) + Rd(o.XSS, (o.JXS[7] + loc - 1)))

\* the loop of _SIGBlock from reaction i on, over zip(self.mt, self._LOCA)
RECURSIVE SigLoop(_, _, _)
SigLoop(o, i, xs) ==
  IF i > Min(Len(o.mt), Len(o.LOCA)) THEN [err |-> "", xs |-> xs]
  ELSE IF ~(/\ InRange(o.XSS, (o.JXS[7] + o.LOCA[i] - 1) - 1)
            /\ InRange(o.XSS, (o.JXS[7] + o.LOCA[i] - 1)))
  THEN [err |-> "IndexError", xs |-> xs]
  ELSE SigLoop(o, i + 1,
               Put(xs, o.mt[i],
                   XS(o.mt[i], SigEnergy(o, o.LOCA[i]),
                      SigValues(o, o.LOCA[i]))))

\* self.XSS[ (JXS[8]-1):(JXS[8]-1)+NXS[5] ] of _LANDBlock
LandLocators(o) == Slice(o.XSS, o.JXS[8] - 1, (o.JXS[8] - 1) + o.NXS[5])

\* the distribution _angular_data builds for one (e, lc) pair
AngularDist(xss, jxs9, lc) ==
  IF lc > 0
  THEN [type |-> "equiprobable", interp |-> 1,
        cos |-> <<Rd(xss, (jxs9 + lc - 1) - 1)>>,
        pdf |-> [i \in 1..32 |-> 1], cdf |-> [i \in 1..32 |-> i]]
  ELSE IF lc = 0
  THEN [type |-> "isotropic", interp |-> 1, cos |-> <<-1, 1>>,
        pdf |-> <<1>>, cdf |-> <<1>>]
  ELSE LET LDAT == jxs9 + Abs(lc) - 1
           np == Rd(xss, (LDAT + 1) - 1)
           K == LDAT + 2
       IN  [type |-> "tabular", interp |-> Rd(xss, LDAT - 1),
            cos |-> Slice(xss, (K + 0 * np) - 1, (K + 1 * np) - 1),
            pdf |-> Slice(xss, (K + 1 * np) - 1, (K + 2 * np) - 1),
            cdf |-> Slice(xss, (K + 2 * np) - 1, (K + 3 * np) - 1)]

\* the scalar reads AngularDist makes are inside the array
AngularDistOK(xss, jxs9, lc) ==
  IF lc > 0 THEN InRange(xss, (jxs9 + lc - 1) - 1)
  ELSE IF lc = 0 THEN TRUE
  ELSE /\ InRange(xss, (jxs9 + Abs(lc) - 1) - 1)
       /\ InRange(xss, (jxs9 + Abs(lc) - 1 + 1) - 1)

\* _angular_data(locb); 'dist' is keyed by the energy, a later pair with
\* the same energy replacing an earlier one
AngularData(xss, jxs9, locb) ==
  LET start == jxs9 + locb - 1
      NE == Rd(xss, start - 1)
      E == Slice(xss, start, start + NE)
      LC == Slice(xss, start + NE, start + 2 * NE)
      n == Min(Len(E), Len(LC))
      last(e) == CHOOSE i \in 1..n :
                   E[i] = e /\ \A j \in (i + 1)..n : E[j] # e
  IN  IF locb > 0
      THEN [err |-> IF /\ InRange(xss, start - 1)
                       /\ \A i \in 1..n : AngularDistOK(xss, jxs9, LC[i])
                    THEN "" ELSE "IndexError",
            val |-> [kind |-> "table", energy |-> E,
                     dist |-> [e \in {E[i] : i \in 1..n} |->
                                 AngularDist(xss, jxs9, LC[last(e)])]]]
      ELSE [err |-> "",
            val |-> [kind |-> IF locb = 0 THEN "isotropic"
                              ELSE IF locb = -1 THEN "deferred" ELSE "None",
                     energy |-> << >>, dist |-> << >>]]

\* the loop of _ANDBlock over self._LOCB[1:], from locator k on
RECURSIVE AndLoop(_, _, _)
AndLoop(o, k, ad) ==
  IF k > Len(o.LOCB) THEN [err |-> "", ad |-> ad]
  ELSE IF "mt" \in o.none THEN [err |-> "TypeError", ad |-> ad]
  ELSE IF k - 1 > Len(o.mt) THEN [err |-> "IndexError", ad |-> ad]
  ELSE IF AngularData(o.XSS, o.JXS[9], o.LOCB[k]).err # ""
  THEN [err |-> "IndexError", ad |-> ad]
  ELSE AndLoop(o, k + 1,
               Put(ad, o.mt[k - 1],
                   AngularData(o.XSS, o.JXS[9], o.LOCB[k]).val))

\* elastic scattering has an entry if NXS[5] > 0
ElasticExists(o) == o.NXS[5] > 0

\* LDLW and DLW are decoded if NXS[5] != 0
DLWExists(o) == o.NXS[5] # 0

\* a reaction the DLW block does not decode
MTAbove100(mt) == mt > 100

\* the loop of _DLWBlock(JED, NMT, LDIS) from reaction i on
RECURSIVE DlwLoop(_, _, _, _)
DlwLoop(o, i, sd, warn) ==
  IF i > Len(o.LOCC) THEN [err |-> "", warn |-> warn, sd |-> sd]
  ELSE IF "mt" \in o.none THEN [err |-> "TypeError", warn |-> warn, sd |-> sd]
  ELSE IF i > Len(o.mt) \/ i > Len(o.TYR)
  THEN [err |-> "IndexError", warn |-> warn, sd |-> sd]
  ELSE IF MTAbove100(o.mt[i])
  THEN DlwLoop(o, i + 1, sd,
               Append(warn,
                      Warning("I don't know how to handle reaction #",
                              o.mt[i])))
  ELSE LET r == SecondaryDist(o.XSS, o.LOCC[i], o.JXS[11], o.JXS[11],
                              o.TYR[i])
       IN  IF r.err # ""
           THEN [err |-> r.err, warn |-> warn \o r.warn, sd |-> sd]
           ELSE DlwLoop(o, i + 1, Put(sd, o.mt[i], r.val), warn \o r.warn)

(***************************************************************************)
(* The decode after the constructor: the constructor's own calls of        *)
(* _processNXS, _processJXS and _processXSS are commented out              *)
(* (src/ace.py:788-798), so the caller makes them, in that order.          *)
(***************************************************************************)
\* ce._processNXS(): names NXS[1..16]; a new-style table gets Z and A here
ProcessNXS ==
  /\ pc = "returned"
  /\ IF Len(obj.NXS) < 16
     THEN Raise("KeyError") /\ UNCHANGED obj
     ELSE /\ obj' = IF obj.isNewStyle
                    THEN [obj EXCEPT !.has = @ \cup {"Z", "A"},
                                     !.Z = obj.NXS[10], !.A = obj.NXS[11]]
                    ELSE obj
          /\ pc' = "nxs"
          /\ UNCHANGED err
  /\ UNCHANGED <<inp, fileOpen, opens, warned, blocks>>

\* ce._processJXS(): names JXS[1..27]
ProcessJXS ==
  /\ pc = "nxs"
  /\ IF Len(obj.JXS) < 27
     THEN Raise("KeyError")
     ELSE pc' = "jxs" /\ UNCHANGED err
  /\ UNCHANGED <<inp, fileOpen, opens, obj, warned, blocks>>

\* a dispatcher that calls _MTRBlock before _NUBlock (the order the code
\* does not have)
BlockOrderMTRFirst ==
  <<"ESZ", "MTR", "NU", "LQR", "TYR", "LSIG", "SIG", "LAND", "AND", "LDLW",
    "DLW">>

\* the order in which ce._processXSS calls the block decoders
BlockOrder ==
  <<"ESZ", "NU", "MTR", "LQR", "TYR", "LSIG", "SIG", "LAND", "AND", "LDLW",
    "DLW">>

\* where the dispatcher stands after block b
After(b) ==
  LET i == CHOOSE k \in 1..Len(BlockOrder) : BlockOrder[k] = b
  IN  IF i = Len(BlockOrder) THEN "done" ELSE BlockOrder[i + 1]

\* block b has been called; decoded tells whether its predicate held
Called(b, decoded) == blocks' = Append(blocks, [name |-> b, ran |-> decoded])

\* the head of ce._processXSS: the length assertion and the empty
\* secondary_dist
ProcessXSS ==
  /\ pc = "jxs"
  /\ IF "XSS" \notin obj.has
     THEN Raise("AttributeError") /\ UNCHANGED obj
     ELSE IF Len(obj.XSS) # obj.NXS[1]
     THEN Raise("AssertionError") /\ UNCHANGED obj
     ELSE /\ obj' = [obj EXCEPT !.has = @ \cup {"secondary_dist"}]
          /\ pc' = BlockOrder[1]
          /\ UNCHANGED err
  /\ UNCHANGED <<inp, fileOpen, opens, warned, blocks>>

ESZBlock ==
  /\ pc = "ESZ"
  /\ obj' = ESZDecode(obj)
  /\ pc' = After("ESZ")
  /\ Called("ESZ", TRUE)
  /\ UNCHANGED <<inp, fileOpen, opens, warned, err>>

NUBlock ==
  /\ pc = "NU"
  /\ Called("NU", NUExists(obj))
  /\ IF ~NUExists(obj)
     THEN pc' = After("NU") /\ UNCHANGED <<obj, warned, err>>
     ELSE \E r \in {NUDecode(obj)} :
            /\ warned' = warned \o r.warn
            /\ obj' = r.obj
            /\ IF r.err # ""
               THEN Raise(r.err)
               ELSE pc' = After("NU") /\ UNCHANGED err
  /\ UNCHANGED <<inp, fileOpen, opens>>

\* _MTRBlock, _LQRBlock, _TYRBlock, _LSIGBlock: the array, or None
ReactionBlock(b, attr, j) ==
  /\ pc = b
  /\ Called(b, ReactionsExist(obj))
  /\ obj' = IF ReactionsExist(obj)
            THEN [obj EXCEPT !.has = @ \cup {attr}, !.none = @ \ {attr},
                             ![attr] = ReactionArray(obj, j)]
            ELSE [obj EXCEPT !.has = @ \cup {attr}, !.none = @ \cup {attr}]
  /\ pc' = After(b)
  /\ UNCHANGED <<inp, fileOpen, opens, warned, err>>

MTRBlock == ReactionBlock("MTR", "mt", 3)

LQRBlock == ReactionBlock("LQR", "Q_values", 4)

TYRBlock == ReactionBlock("TYR", "TYR", 5)

LSIGBlock == ReactionBlock("LSIG", "LOCA", 6)

SIGBlock ==
  /\ pc = "SIG"
  /\ Called("SIG", ReactionsExist(obj))
  /\ IF ~ReactionsExist(obj)
     THEN pc' = After("SIG") /\ UNCHANGED <<obj, err>>
     ELSE IF SigLoop(obj, 1, obj.xs).err # ""
     THEN Raise(SigLoop(obj, 1, obj.xs).err) /\ UNCHANGED obj
     ELSE /\ obj' = [obj EXCEPT !.xs = SigLoop(obj, 1, obj.xs).xs]
          /\ pc' = After("SIG")
          /\ UNCHANGED err
  /\ UNCHANGED <<inp, fileOpen, opens, warned>>

LANDBlock ==
  /\ pc = "LAND"
  /\ Called("LAND", TRUE)
  /\ obj' = [obj EXCEPT !.has = @ \cup {"LOCB"}, !.LOCB = LandLocators(obj)]
  /\ pc' = After("LAND")
  /\ UNCHANGED <<inp, fileOpen, opens, warned, err>>

\* _ANDBlock(): angular_dist['elastic'] from _LOCB[0] if NXS[5] > 0, else
\* angular_dist = None; then one entry per locator of _LOCB[1:]
ANDDecode(o) ==
  LET el == AngularData(o.XSS, o.JXS[9], o.LOCB[1])
      rest == AndLoop(o, 2, << >>)
  IN  IF ElasticExists(o) /\ Len(o.LOCB) = 0
      THEN [err |-> "IndexError", obj |-> o]
      ELSE IF ElasticExists(o) /\ el.err # ""
      THEN [err |-> el.err, obj |-> o]
      ELSE IF rest.err # "" THEN [err |-> rest.err, obj |-> o]
      ELSE [err |-> "",
            obj |-> [o EXCEPT
                       !.has = @ \cup {"angular_dist"},
                       !.none = IF ElasticExists(o) THEN @
                                ELSE @ \cup {"angular_dist"},
                       !.angular_dist =
                          IF ElasticExists(o)
                          THEN [elastic |-> <<el.val>>, mt |-> rest.ad]
                          ELSE [elastic |-> << >>, mt |-> rest.ad]]]

ANDBlock ==
  /\ pc = "AND"
  /\ Called("AND", TRUE)
  /\ IF ANDDecode(obj).err # ""
     THEN Raise(ANDDecode(obj).err) /\ UNCHANGED obj
     ELSE /\ obj' = ANDDecode(obj).obj
          /\ pc' = After("AND")
          /\ UNCHANGED err
  /\ UNCHANGED <<inp, fileOpen, opens, warned>>

\* self.LOCC = self._LDLWBlock(LED=self.JXS[10], NMT=NMT).astype(int)
LDLWBlockStep ==
  /\ pc = "LDLW"
  /\ Called("LDLW", DLWExists(obj))
  /\ obj' = IF DLWExists(obj)
            THEN [obj EXCEPT !.has = @ \cup {"LOCC"},
                             !.LOCC = LDLWBlock(obj.XSS, obj.JXS[10],
                                                obj.NXS[5])]
            ELSE obj
  /\ pc' = After("LDLW")
  /\ UNCHANGED <<inp, fileOpen, opens, warned, err>>

\* self._DLWBlock(JED=self.JXS[11], NMT=NMT, LDIS=self.JXS[11])
DLWBlock ==
  /\ pc = "DLW"
  /\ Called("DLW", DLWExists(obj))
  /\ IF ~DLWExists(obj)
     THEN pc' = After("DLW") /\ UNCHANGED <<obj, warned, err>>
     ELSE /\ warned' = DlwLoop(obj, 1, obj.secondary_dist, warned).warn
          /\ IF DlwLoop(obj, 1, obj.secondary_dist, warned).err # ""
             THEN /\ Raise(DlwLoop(obj, 1, obj.secondary_dist, warned).err)
                  /\ UNCHANGED obj
             ELSE /\ obj' = [obj EXCEPT !.secondary_dist =
                               DlwLoop(obj, 1, obj.secondary_dist,
                                       warned).sd]
                  /\ pc' = After("DLW")
                  /\ UNCHANGED err
  /\ UNCHANGED <<inp, fileOpen, opens>>

Next ==
  \/ Open
  \/ ProcessHeader
  \/ ReadXSS
  \/ Close
  \/ ProcessNXS
  \/ ProcessJXS
  \/ ProcessXSS
  \/ ESZBlock
  \/ NUBlock
  \/ MTRBlock
  \/ LQRBlock
  \/ TYRBlock
  \/ LSIGBlock
  \/ SIGBlock
  \/ LANDBlock
  \/ ANDBlock
  \/ LDLWBlockStep
  \/ DLWBlock

Spec == Init /\ [][Next]_vars

(***************************************************************************)
(* The properties checked.                                                 *)
(***************************************************************************)
\* the file is a whole table: 16 NXS and 32 JXS entries, NXS[1] numbers
Whole ==
  /\ Len(inp.nxs) = 16
  /\ Len(inp.jxs) = 32
  /\ Len(inp.body) = inp.nxs[1]

\* C1: when the constructor returns with headerOnly false, the payload is
\* populated: energies and xs[1], xs[2], xs[102], xs[301] exist.
C1_PayloadPopulated ==
  (pc = "returned" /\ ~inp.headerOnly) =>
     /\ "energies" \in obj.has
     /\ {1, 2, 102, 301} \subseteq DOMAIN obj.xs

\* C2: the blocks called so far are a prefix of ESZ, NU, MTR, LQR, TYR,
\* LSIG, SIG, LAND, AND, LDLW, DLW, each called once; ESZ, LAND and AND
\* always decode, NU decodes iff JXS[2] != 0, MTR, LQR, TYR, LSIG and SIG
\* iff NXS[4] != 0, LDLW and DLW iff NXS[5] != 0; the block about to start
\* is the next of the order, and a finished decode has called all eleven.
C2_Decodes(name) ==
  CASE name \in {"ESZ", "LAND", "AND"} -> TRUE
    [] name = "NU" -> inp.jxs[2] # 0
    [] name \in {"MTR", "LQR", "TYR", "LSIG", "SIG"} -> inp.nxs[4] # 0
    [] name \in {"LDLW", "DLW"} -> inp.nxs[5] # 0

C2_Order ==
  <<"ESZ", "NU", "MTR", "LQR", "TYR", "LSIG", "SIG", "LAND", "AND", "LDLW",
    "DLW">>

C3_ExactLoad ==
  (pc = "returned" /\ ~inp.headerOnly) => Len(obj.XSS) = obj.NXS[1]

\* C4: no table is returned whose NXS directory has not 16 entries or whose
\* JXS directory has not 32, or whose directory lines hold a token that is
\* no integer.
C4_HeaderRejected ==
  pc = "returned" =>
     /\ Len(obj.NXS) = 16
     /\ Len(obj.JXS) = 32
     /\ inp.badInt = "none"

\* C5: one handle is opened per decode, and no terminal state (a returned
\* table, a finished decode, an error) leaves it open.
C5_HandleClosed ==
  pc \in {"returned", "done", "error"} => (~fileOpen /\ opens = 1)

\* C6: once the ESZ block is decoded, energies is XSS[JXS[1] .. JXS[1]+N-1]
\* (1-based, N = NXS[3]) and xs[1], xs[102], xs[2], xs[301] hold the next
\* four arrays of N cells, each on the energies.
C6_MT == <<1, 102, 2, 301>>

C6_EszArrays ==
  Len(blocks) >= 1 =>
     /\ obj.energies =
          SubSeq(inp.body, inp.jxs[1], inp.jxs[1] + inp.nxs[3] - 1)
     /\ Len(obj.energies) = inp.nxs[3]
     /\ \A k \in 1..4 :
          /\ obj.xs[C6_MT[k]].XS =
               SubSeq(inp.body, inp.jxs[1] + k * inp.nxs[3],
                      inp.jxs[1] + (k + 1) * inp.nxs[3] - 1)
          /\ obj.xs[C6_MT[k]].Energy = obj.energies

\* C7: after a decode, prompt and total nubar are present iff JXS[2] != 0
\* and delayed nubar is present iff JXS[24] > 0.
C7_Present(name) == name \in obj.has /\ name \notin obj.none

C7_NubarPresence ==
  pc = "done" =>
     /\ C7_Present("prompt_nubar") <=> inp.jxs[2] # 0
     /\ C7_Present("total_nubar") <=> inp.jxs[2] # 0
     /\ C7_Present("delayed_nubar") <=> inp.jxs[24] > 0

\* C8: once the SIG block is decoded, for every reaction i with locator
\* LOCA, IE = XSS[JXS[7]+LOCA-1] and NE = XSS[JXS[7]+LOCA] (1-based), the
\* record xs[MT] holds the NE values from XSS[JXS[7]+LOCA+1] on and its
\* energies are the cells IE .. IE-1+NE of the table's energy grid.
C8_Grid == SubSeq(inp.body, inp.jxs[1], inp.jxs[1] + inp.nxs[3] - 1)

C8_MT(i) == inp.body[inp.jxs[3] + i - 1]

C8_At(i) == inp.jxs[7] + inp.body[inp.jxs[6] + i - 1]

C8_SigEnergy ==
  (Len(blocks) >= 7 /\ blocks[7].ran /\ ~(pc = "error" /\ err.at = "SIG")) =>
     \A i \in 1..inp.nxs[4] :
        /\ obj.xs[C8_MT(i)].XS =
             SubSeq(inp.body, C8_At(i) + 1, C8_At(i) + inp.body[C8_At(i)])
        /\ obj.xs[C8_MT(i)].Energy =
             SubSeq(C8_Grid, inp.body[C8_At(i) - 1],
                    inp.body[C8_At(i) - 1] - 1 + inp.body[C8_At(i)])

\* C9: when a reaction decoded by the DLW block names a law that is no key
\* of the registry, the DLW block does not raise, the reaction's LNW, LAW,
\* IDAT, NBT, INT, energies and probabilities are those at
\* P = JXS[11]+LOCC-1 onward, its payload keeps the law id and no data, and
\* every other reaction of the block is decoded with its own law.
C9_MT(i) == inp.body[inp.jxs[3] + i - 1]

C9_P(i) == inp.jxs[11] + inp.body[inp.jxs[10] + i - 1] - 1

C9_Law(i) == inp.body[C9_P(i) + 1]

C9_NR(i) == inp.body[C9_P(i) + 3]

C9_NE(i) == inp.body[C9_P(i) + 4 + 2 * C9_NR(i)]

C9_Envelope(i) ==
  [LNW |-> inp.body[C9_P(i)],
   law |-> inp.body[C9_P(i) + 1],
   IDAT |-> inp.body[C9_P(i) + 2],
   NBT |-> SubSeq(inp.body, C9_P(i) + 4, C9_P(i) + 3 + C9_NR(i)),
   INT |-> SubSeq(inp.body, C9_P(i) + 4 + C9_NR(i),
                  C9_P(i) + 3 + 2 * C9_NR(i)),
   energy |-> SubSeq(inp.body, C9_P(i) + 5 + 2 * C9_NR(i),
                     C9_P(i) + 4 + 2 * C9_NR(i) + C9_NE(i)),
   probability |-> SubSeq(inp.body, C9_P(i) + 5 + 2 * C9_NR(i) + C9_NE(i),
                          C9_P(i) + 4 + 2 * C9_NR(i) + 2 * C9_NE(i))]

\* the reactions the DLW block decodes (MT <= 100) ...
C9_Decoded == {i \in 1..inp.nxs[5] : C9_MT(i) <= 100}

\* ... and those of them whose law is no key of the registry
C9_Unknown == {i \in C9_Decoded : C9_Law(i) \notin Laws}

C9_Got(i) ==
  [LNW |-> obj.secondary_dist[C9_MT(i)].LNW,
   law |-> obj.secondary_dist[C9_MT(i)].law,
   IDAT |-> obj.secondary_dist[C9_MT(i)].IDAT,
   NBT |-> obj.secondary_dist[C9_MT(i)].NBT,
   INT |-> obj.secondary_dist[C9_MT(i)].INT,
   energy |-> obj.secondary_dist[C9_MT(i)].energy,
   probability |-> obj.secondary_dist[C9_MT(i)].probability]

C9_UnknownLawDecoded ==
  (Whole /\ C9_Unknown # {}) =>
     /\ ~(pc = "error" /\ err.at = "DLW")
     /\ pc = "done" =>
          /\ DOMAIN obj.secondary_dist = {C9_MT(i) : i \in C9_Decoded}
          /\ \A i \in C9_Decoded :
               /\ C9_Got(i) = C9_Envelope(i)
               /\ obj.secondary_dist[C9_MT(i)].LDAT.law = C9_Law(i)
          /\ \A i \in C9_Unknown :
               obj.secondary_dist[C9_MT(i)].LDAT.L = << >>
          /\ \A i \in C9_Decoded \ C9_Unknown :
               C9_Law(i) = 3 =>
                 obj.secondary_dist[C9_MT(i)].LDAT.L =
                   SubSeq(inp.body,
                          inp.jxs[11] + inp.body[C9_P(i) + 2] - 1,
                          inp.jxs[11] + inp.body[C9_P(i) + 2])

\* a finished decode of a table with two decoded reactions, one of law 77
\* and one of law 3
C9_Witness ==
  /\ pc = "done"
  /\ Whole
  /\ \E i \in C9_Unknown : C9_Law(i) = 77
  /\ \E i \in C9_Decoded : C9_Law(i) = 3
  /\ Cardinality(DOMAIN obj.secondary_dist) >= 2

\* C10: after a decode in which soft errors occurred (a law without a
\* decoder, a chained law, an MT above 100 in the DLW block), the table
\* carries a diagnostics list.
C10_DiagnosticsOnTable ==
  (pc = "done" /\ warned # << >>) => "diagnostics" \in obj.has

(***************************************************************************)
(* The listing tool (src/listing.py).  generateJSON builds one             *)
(* DataDirectory and maps its extend method over the xsdir index with a    *)
(* multiprocessing.Pool of args.N worker processes.  The specification     *)
(* SpecBatch uses the state variables as follows: inp is the library (for  *)
(* every index, whether its metadata function raises, and N), obj the      *)
(* DataDirectory with the workers' copies of it, pc the position of        *)
(* generateJSON, warned the lines it prints at the end.                    *)
(***************************************************************************)
MaxTables == 3

MaxWorkers == 2

\* ddir.XSDIR.index, with the outcome of the metadata function per index
Libraries == [fails : [1..MaxTables -> BOOLEAN], N : 1..MaxWorkers]

\* DataDirectory.__init__: self.problems = []
DataDirectory ==
  [problems |-> << >>,
   copies |-> << >>,
   results |-> [i \in 1..MaxTables |-> "todo"]]

BatchInit ==
  /\ inp \in Libraries
  /\ pc = "created"
  /\ fileOpen = FALSE
  /\ opens = 0
  /\ obj = DataDirectory
  /\ warned = << >>
  /\ blocks = << >>
  /\ err = NoErr

\* multiprocessing.Pool(args.N): the bound method ddir.extend reaches a
\* worker pickled, so every worker process calls extend on its own copy of
\* ddir, made from the parent's object as it was before the map.
PoolStart ==
  /\ pc = "created"
  /\ pc' = "mapping"
  /\ obj' = [obj EXCEPT !.copies = [w \in 1..inp.N |-> obj.problems]]
  /\ UNCHANGED <<inp, fileOpen, opens, warned, blocks, err>>

\* DataDirectory.extend on an object whose problem list is problems: the
\* exception of the metadata function is caught, the index is appended to
\* self.problems and None is returned.
extend(problems, index) ==
  IF inp.fails[index]
    THEN [problems |-> Append(problems, index), result |-> "None"]
    ELSE [problems |-> problems, result |-> "meta"]

\* a worker runs one task of the map on its copy
WorkerExtend ==
  /\ pc = "mapping"
  /\ \E w \in 1..inp.N, index \in 1..MaxTables :
       /\ obj.results[index] = "todo"
       /\ \E r \in {extend(obj.copies[w], index)} :
            obj' = [obj EXCEPT !.copies[w] = r.problems,
                               !.results[index] = r.result]
  /\ UNCHANGED <<inp, pc, fileOpen, opens, warned, blocks, err>>

\* pool.map returns the list of results once every task is done; the
\* workers end with the with-block and their copies are discarded
PoolJoin ==
  /\ pc = "mapping"
  /\ \A index \in 1..MaxTables : obj.results[index] # "todo"
  /\ pc' = "joined"
  /\ UNCHANGED <<inp, fileOpen, opens, obj, warned, blocks, err>>

\* pd.DataFrame([r for r in results if r]) merged on 'ZAID': a frame built
\* from no result has no ZAID column and the merge raises KeyError
Merge ==
  /\ pc = "joined"
  /\ IF \A index \in 1..MaxTables : obj.results[index] = "None"
       THEN Raise("KeyError")
       ELSE pc' = "merged" /\ err' = err
  /\ UNCHANGED <<inp, fileOpen, opens, obj, warned, blocks>>

\* if ddir.problems: print every entry of the parent's list
Report ==
  /\ pc = "merged"
  /\ pc' = "reported"
  /\ warned' = obj.problems
  /\ UNCHANGED <<inp, fileOpen, opens, obj, blocks, err>>

BatchNext ==
  \/ PoolStart
  \/ WorkerExtend
  \/ PoolJoin
  \/ Merge
  \/ Report

SpecBatch == BatchInit /\ [][BatchNext]_vars

\* C11: in a batch over N workers the failure of one table never stops the
\* others (every index gets its result), and the problem list reported
\* after the batch holds exactly the indices whose decode failed.
C11_Failed == {index \in 1..MaxTables : inp.fails[index]}

C11_ProblemsCollected ==
  /\ pc \in {"joined", "merged", "reported"} =>
       \A index \in 1..MaxTables :
         obj.results[index] = (IF inp.fails[index] THEN "None" ELSE "meta")
  /\ pc = "reported" =>
       {warned[k] : k \in 1..Len(warned)} = C11_Failed

(***************************************************************************)
(* The cross-section record on its own (class XS of src/ace.py).  The      *)
(* specification SpecXS constructs one record from an energy array and a   *)
(* value array and samples it at one energy: inp holds the two arrays, obj *)
(* the record and the value Sample returned, pc the position.  Energies    *)
(* are the even numbers 2, 4, ... so that the sampled energy can fall on   *)
(* a grid point, between two, below the first and above the last.          *)
(***************************************************************************)
MaxGrid == 3

\* strictly increasing energy arrays (searchsorted needs a sorted array)
RECURSIVE Ascending(_, _)
Ascending(S, last) ==
  {<< >>} \cup
  UNION {{<<e>> \o rest : rest \in Ascending({x \in S : x > e}, e)} :
           e \in {x \in S : x > last}}

EnergyArrays == Ascending({2 * i : i \in 1..MaxGrid}, 0)

ValueArrays == {[i \in 1..n |-> 5 * i] : n \in 0..MaxGrid}

SampleEnergies == 1..(2 * MaxGrid + 1)

XSInit ==
  /\ inp \in [Energy : EnergyArrays, xs : ValueArrays]
  /\ pc = "new"
  /\ fileOpen = FALSE
  /\ opens = 0
  /\ obj = [EXS |-> XS(0, << >>, << >>), E |-> 0, sampled |-> << >>]
  /\ warned = << >>
  /\ blocks = << >>
  /\ err = NoErr

\* XS(MT, Energy, xs)
XSConstruct ==
  /\ pc = "new"
  /\ pc' = "built"
  /\ obj' = [obj EXCEPT !.EXS = XS(1, inp.Energy, inp.xs)]
  /\ UNCHANGED <<inp, fileOpen, opens, warned, blocks, err>>

\* numpy.searchsorted(a, E): the number of entries of a below E
SearchSorted(a, E) == Cardinality({i \in 1..Len(a) : a[i] < E})

\* the values Sample returns: a number num/den, or the array that a
\* boolean mask selects
Number(num, den) == [isArray |-> FALSE, num |-> num, den |-> den, arr |-> << >>]

Masked(exs, E) ==
  [isArray |-> TRUE, num |-> 0, den |-> 1,
   arr |-> SelectSeq(exs.XS, LAMBDA v :
             \E i \in 1..Len(exs.XS) : exs.XS[i] = v /\ exs.Energy[i] = E)]

\* linear interpolation between the grid points index-1 and index
\* (0-based), as the quotient of two integers
Interpolate(exs, index, E) ==
  Number((exs.XS[index + 1] - exs.XS[index]) * (E - exs.Energy[index])
           + exs.XS[index] * (exs.Energy[index + 1] - exs.Energy[index]),
         exs.Energy[index + 1] - exs.Energy[index])

\* Sample without the test for a grid point
SampleNoGridTest(exs, E) ==
  IF SearchSorted(exs.Energy, E) = 0
       \/ SearchSorted(exs.Energy, E) >= Len(exs.Energy)
    THEN Number(0, 1)
  ELSE Interpolate(exs, SearchSorted(exs.Energy, E), E)

\* XS.Sample(E)
Sample(exs, E) ==
  IF \E i \in 1..Len(exs.Energy) : exs.Energy[i] = E
    THEN Masked(exs, E)
  ELSE IF SearchSorted(exs.Energy, E) = 0
            \/ SearchSorted(exs.Energy, E) >= Len(exs.Energy)
    THEN Number(0, 1)
  ELSE Interpolate(exs, SearchSorted(exs.Energy, E), E)

XSSample ==
  /\ pc = "built"
  /\ pc' = "sampled"
  /\ \E E \in SampleEnergies :
       obj' = [obj EXCEPT !.E = E, !.sampled = Sample(obj.EXS, E)]
  /\ UNCHANGED <<inp, fileOpen, opens, warned, blocks, err>>

XSNext ==
  \/ XSConstruct
  \/ XSSample

SpecXS == XSInit /\ [][XSNext]_vars

\* C12: Sample(E) returns 0 for every E below the first grid energy and
\* for every E at or above the last one, the last grid point included.
C12_ZeroOutsideGrid ==
  (/\ pc = "sampled"
   /\ Len(obj.EXS.Energy) > 0
   /\ \/ obj.E < obj.EXS.Energy[1]
      \/ obj.E >= obj.EXS.Energy[Len(obj.EXS.Energy)])
    => obj.sampled = Number(0, 1)

\* C12, amended: Sample(E) returns 0 for every E below the first grid
\* energy and for every E above the last one; at a grid point, the last one
\* included, it returns the tabulated value of that point.
C12_ZeroOffGrid ==
  (pc = "sampled" /\ Len(obj.EXS.Energy) > 0) =>
    /\ (\/ obj.E < obj.EXS.Energy[1]
        \/ obj.E > obj.EXS.Energy[Len(obj.EXS.Energy)])
         => obj.sampled = Number(0, 1)
    /\ \A i \in 1..Len(obj.EXS.Energy) :
         obj.E = obj.EXS.Energy[i] =>
           /\ obj.sampled.isArray
           /\ obj.sampled.arr = <<obj.EXS.XS[i]>>

\* a record of two or more points sampled at its last grid energy
C12_Witness ==
  /\ pc = "sampled"
  /\ Len(obj.EXS.Energy) >= 2
  /\ obj.E = obj.EXS.Energy[Len(obj.EXS.Energy)]
  /\ obj.sampled.arr = <<obj.EXS.XS[Len(obj.EXS.XS)]>>
  /\ obj.EXS.XS[Len(obj.EXS.XS)] # 0

\* C13: a record is only ever constructed from an energy array and a value
\* array of the same length; a construction with different lengths is
\* rejected instead of dropping the surplus elements.
C13_LengthsChecked ==
  pc \in {"built", "sampled"} =>
    /\ Len(inp.Energy) = Len(inp.xs)
    /\ obj.EXS.Energy = inp.Energy
    /\ obj.EXS.XS = inp.xs

\* C14: once the header is read, a ZAID whose ZA part is an integer has
\* left Z = ZA div 1000 and A = ZA - 1000*Z on the table, and one whose ZA
\* part is no integer has left Z and A absent, for a new-style header as
\* for an old-style one.
C14_ZofHeader ==
  pc \in {"header", "loaded", "returned"} =>
    IF inp.zaNumeric
      THEN /\ C7_Present("Z")
           /\ C7_Present("A")
           /\ obj.Z = inp.za \div 1000
           /\ obj.A = inp.za - 1000 * (inp.za \div 1000)
      ELSE ~C7_Present("Z") /\ ~C7_Present("A")

(***************************************************************************)
(* xsdir records (ace.xsdirEntry of src/ace.py, xsdir_entry of             *)
(* src/xsdir.py).  A line of text is the sequence of its words; a word     *)
(* keeps its characters (s), whether it is written as an integer, a        *)
(* floating-point number or something else (t), and the number it stands   *)
(* for (n).  The specification SpecEntry regenerates the xsdir record of a *)
(* decoded table and parses it back: inp is the source entry e of the      *)
(* table, obj holds the emitted record and the parsed entry.               *)
(***************************************************************************)
WrapWidth == 75

WrapIndent == 10

RECURSIVE Pow10(_)
Pow10(k) == IF k = 0 THEN 1 ELSE 10 * Pow10(k - 1)

IntWord(n) == [t |-> "int", s |-> ToString(n), n |-> n]

StrWord(s) == [t |-> "str", s |-> s, n |-> 0]

\* '{}'.format(x) of a float, here a number of thousandths: repr keeps the
\* value
FloatWord(x) == [t |-> "float", s |-> ToString(x) \o ".", n |-> x]

\* a temperature is a mantissa of so many significant digits; the value
\* with seven significant digits, rounded
SevenDigits(temperature) ==
  IF temperature.digits <= 7
    THEN temperature.mant * Pow10(7 - temperature.digits)
    ELSE (temperature.mant + 5 * Pow10(temperature.digits - 8))
           \div Pow10(temperature.digits - 7)

\* '{:.6E}'.format(temperature): twelve characters, seven digits kept
Format6E(temperature) ==
  [t |-> "float", s |-> ToString(SevenDigits(temperature)) \o ".E-08",
   n |-> SevenDigits(temperature)]

\* the source entries: a short and three longer file names, with and
\* without probability tables, temperatures of five and of eight digits
SourceEntries ==
  [zaid : {"92235.80c"}, za : {92235}, suffix : {"80c"},
   atomic_weight_ratio : {233025},
   filename : {"u235", "endf71x/U/92235", "xdata/endf71x/U/92235.710nc",
               "data/xdata/endf71x/U/92235.710nc.ace"},
   access : {0}, file_type : {1}, address : {1, 123456},
   table_length : {19, 1235711}, record_length : {0}, num_entries : {0},
   temperature : {[mant |-> 25301, digits |-> 5],
                  [mant |-> 25301234, digits |-> 8]},
   ptable : {<<"ptable">>, << >>}]

\* the attributes of the table decoded from the file that e names
TableOf(e) ==
  [zaid |-> e.za, suffix |-> e.suffix,
   atomic_weight_ratio |-> e.atomic_weight_ratio,
   temperature |-> e.temperature,
   NXS1 |-> e.table_length,
   JXS23 |-> IF e.ptable = << >> THEN 0 ELSE 1]

\* the words of the formatted entry: custom_dict after the hard-coded
\* values and customize = {filename, start_line}; an empty ptable leaves
\* no word
EntryWords(table, customize) ==
  <<StrWord(ToString(table.zaid) \o "." \o table.suffix),
    FloatWord(table.atomic_weight_ratio),
    StrWord(customize.filename),
    IntWord(0),
    IntWord(1),
    IntWord(customize.start_line),
    IntWord(table.NXS1),
    IntWord(0),
    IntWord(0),
    Format6E(table.temperature)>>
  \o (IF table.JXS23 > 0 THEN <<StrWord("ptable")>> ELSE << >>)

\* the length of a line of words separated by single blanks
RECURSIVE TextLen(_)
TextLen(ws) ==
  IF ws = << >> THEN 0
  ELSE Len(ws[1].s) + (IF Len(ws) > 1 THEN 1 ELSE 0) + TextLen(Tail(ws))

\* textwrap.wrap: a line takes the words that fit its room, one at least
Take(ws, room) ==
  CHOOSE n \in 1..Len(ws) :
    /\ n = 1 \/ TextLen(SubSeq(ws, 1, n)) <= room
    /\ \A m \in (n + 1)..Len(ws) : TextLen(SubSeq(ws, 1, m)) > room

RECURSIVE Wrap(_, _)
WrapTake(ws, n) ==
  <<SubSeq(ws, 1, n)>>
    \o Wrap(SubSeq(ws, n + 1, Len(ws)), WrapWidth - WrapIndent)

Wrap(ws, room) == IF ws = << >> THEN << >> ELSE WrapTake(ws, Take(ws, room))

\* ' + \n'.join(entrylines): every line but the last ends with the word +
JoinPlus(lines) ==
  [i \in 1..Len(lines) |->
     IF i < Len(lines) THEN Append(lines[i], StrWord("+")) ELSE lines[i]]

\* ace.xsdirEntry(customize)
xsdirEntry(table, customize) ==
  JoinPlus(Wrap(EntryWords(table, customize), WrapWidth))

\* str.split(): the words of all the lines
RECURSIVE Split(_)
Split(lines) ==
  IF lines = << >> THEN << >> ELSE lines[1] \o Split(Tail(lines))

\* what xsdir_entry.__init__ does with words[i] (0-based): int(), float()
\* or nothing; an index past the end is caught for words[7..10] only
Conversion ==
  <<"str", "float", "str", "str", "int", "int", "int", "int", "int",
    "float", "str">>

WordError(words, i) ==
  IF i >= Len(words) THEN (IF i >= 7 THEN "" ELSE "IndexError")
  ELSE IF Conversion[i + 1] = "int" /\ words[i + 1].t # "int"
    THEN "ValueError"
  ELSE IF Conversion[i + 1] = "float"
            /\ words[i + 1].t \notin {"int", "float"}
    THEN "ValueError"
  ELSE ""

\* the first exception of __init__, "" if it returns
RECURSIVE EntryErrorFrom(_, _)
EntryErrorFrom(words, i) ==
  IF i > 10 THEN ""
  ELSE IF WordError(words, i) # "" THEN WordError(words, i)
  ELSE EntryErrorFrom(words, i + 1)

\* words[i] as a number, as a string; << >> stands for None
Num(words, i) == IF i >= Len(words) THEN << >> ELSE <<words[i + 1].n>>

Str(words, i) == IF i >= Len(words) THEN << >> ELSE <<words[i + 1].s>>

\* xsdir_entry(entry) with words = entry.split()
xsdir_entry(words) ==
  [zaid |-> Str(words, 0),
   atomic_weight_ratio |-> Num(words, 1),
   filename |-> Str(words, 2),
   access |-> Str(words, 3),
   file_type |-> Num(words, 4),
   address |-> Num(words, 5),
   table_length |-> Num(words, 6),
   record_length |-> Num(words, 7),
   num_entries |-> Num(words, 8),
   temperature |-> Num(words, 9),
   ptable |-> Str(words, 10)]

EntryInit ==
  /\ inp \in SourceEntries
  /\ pc = "new"
  /\ fileOpen = FALSE
  /\ opens = 0
  /\ obj = [record |-> << >>, E |-> xsdir_entry(<< >>)]
  /\ warned = << >>
  /\ blocks = << >>
  /\ err = NoErr

\* table.xsdirEntry({'filename': e.filename, 'start_line': e.address})
EmitEntry ==
  /\ pc = "new"
  /\ pc' = "emitted"
  /\ obj' = [obj EXCEPT !.record =
               xsdirEntry(TableOf(inp), [filename |-> inp.filename,
                                         start_line |-> inp.address])]
  /\ UNCHANGED <<inp, fileOpen, opens, warned, blocks, err>>

\* xsdir_entry(record)
ParseEntry ==
  /\ pc = "emitted"
  /\ \E words \in {Split(obj.record)} :
       IF EntryErrorFrom(words, 0) # ""
         THEN Raise(EntryErrorFrom(words, 0)) /\ UNCHANGED obj
         ELSE /\ pc' = "parsed"
              /\ obj' = [obj EXCEPT !.E = xsdir_entry(words)]
              /\ UNCHANGED err
  /\ UNCHANGED <<inp, fileOpen, opens, warned, blocks>>

EntryNext ==
  \/ EmitEntry
  \/ ParseEntry

SpecEntry == EntryInit /\ [][EntryNext]_vars

\* C15: the record that xsdirEntry emits for a table decoded from the file
\* of the source entry e, customized with e's file name and start line, is
\* parsed back into the ZAID, atomic weight ratio, file name, file type,
\* address, table length, temperature (to the seven digits written) and
\* ptable of e, whether the record fits one line or is wrapped.
C15_RoundTrip ==
  pc \in {"parsed", "error"} =>
    /\ pc = "parsed"
    /\ obj.E.zaid = <<inp.zaid>>
    /\ obj.E.atomic_weight_ratio = <<inp.atomic_weight_ratio>>
    /\ obj.E.filename = <<inp.filename>>
    /\ obj.E.file_type = <<inp.file_type>>
    /\ obj.E.address = <<inp.address>>
    /\ obj.E.table_length = <<inp.table_length>>
    /\ obj.E.temperature = <<SevenDigits(inp.temperature)>>
    /\ obj.E.ptable = inp.ptable

(***************************************************************************)
(* The directory section of an xsdir file (xsdir._parse of src/xsdir.py).  *)
(* The specification SpecXsdir parses a directory of one entry, written on *)
(* one line or on two lines of which the first ends with ' +', possibly    *)
(* followed by a second entry: inp is the file, obj the local variables of *)
(* _parse (lines, the position in them, multipleLine, Line) and            *)
(* self.entries.                                                           *)
(***************************************************************************)
\* the words of an entry as the xsdir file holds them
WordsOf(e) ==
  <<StrWord(e.zaid),
    FloatWord(e.atomic_weight_ratio),
    StrWord(e.filename),
    IntWord(e.access),
    IntWord(e.file_type),
    IntWord(e.address),
    IntWord(e.table_length),
    IntWord(e.record_length),
    IntWord(e.num_entries),
    Format6E(e.temperature)>>
  \o (IF e.ptable = << >> THEN << >> ELSE <<StrWord(e.ptable[1])>>)

\* the entry on two lines, the first holding k words and the word +; on
\* one line when k is the number of its words
SplitAt(ws, k) ==
  IF k >= Len(ws) THEN <<ws>>
  ELSE <<Append(SubSeq(ws, 1, k), StrWord("+")), SubSeq(ws, k + 1, Len(ws))>>

\* a second entry of the directory, on one line
OtherEntry ==
  [zaid |-> "1001.80c", za |-> 1001, suffix |-> "80c",
   atomic_weight_ratio |-> 999, filename |-> "h1", access |-> 0,
   file_type |-> 1, address |-> 7, table_length |-> 19,
   record_length |-> 0, num_entries |-> 0,
   temperature |-> [mant |-> 25301, digits |-> 5], ptable |-> << >>]

DirectoryEntries ==
  {e \in SourceEntries :
     /\ e.filename \in {"u235", "xdata/endf71x/U/92235.710nc"}
     /\ e.address = 1
     /\ e.table_length = 19
     /\ e.temperature.digits = 5}

XsdirFiles ==
  [e : DirectoryEntries, k : 1..11, more : BOOLEAN]

\* the lines of the file after the line that holds the word 'directory'
FileLines(f) ==
  SplitAt(WordsOf(f.e), f.k)
    \o (IF f.more THEN <<WordsOf(OtherEntry)>> ELSE << >>)

\* '\n'.join(readlines()) split again at '\n': readlines keeps the end of
\* each line, so every line of the file is followed by an empty one; the
\* first is what follows the word 'directory' on its line
RECURSIVE Doubled(_)
Doubled(lines) ==
  IF lines = << >> THEN << >>
  ELSE <<lines[1], << >>>> \o Doubled(Tail(lines))

SectionLines(f) == <<<< >>>> \o Doubled(FileLines(f))

XsdirInit ==
  /\ inp \in XsdirFiles
  /\ pc = "new"
  /\ fileOpen = FALSE
  /\ opens = 0
  /\ obj = [lines |-> << >>, at |-> 1, multipleLine |-> FALSE,
            Line |-> << >>, entries |-> << >>]
  /\ warned = << >>
  /\ blocks = << >>
  /\ err = NoErr

\* lines = self.sections[1].split('\n'); multipleLine = False
ReadSections ==
  /\ pc = "new"
  /\ pc' = "lines"
  /\ obj' = [obj EXCEPT !.lines = SectionLines(inp)]
  /\ UNCHANGED <<inp, fileOpen, opens, warned, blocks, err>>

\* entry.rstrip().endswith(' +')
EndsWithPlus(entry) ==
  Len(entry) >= 2 /\ entry[Len(entry)].s = "+"

\* the body of the loop for a line that starts or continues an entry: the
\* Line that is handed to xsdir_entry, << >> when the loop continues with
\* the next line instead.  ' '.format(entry.lstrip()) is the string ' ':
\* the format string has no replacement field.
NextLine(o, entry) ==
  IF o.multipleLine THEN [o EXCEPT !.multipleLine = FALSE]
  ELSE IF EndsWithPlus(entry)
    THEN [o EXCEPT !.Line = SubSeq(entry, 1, Len(entry) - 1),
                   !.multipleLine = TRUE]
  ELSE [o EXCEPT !.Line = entry, !.multipleLine = FALSE]

\* E = xsdir_entry(Line); self.entries.append(E)
StoreEntry(o) ==
  [o EXCEPT !.entries = Append(@, xsdir_entry(o.Line)), !.at = @ + 1]

\* one pass of 'for entry in lines'
ParseLine ==
  /\ pc = "lines"
  /\ obj.at <= Len(obj.lines)
  /\ \E entry \in {obj.lines[obj.at]} :
       IF entry = << >>
         THEN obj' = [obj EXCEPT !.at = @ + 1] /\ UNCHANGED <<pc, err>>
       ELSE \E o \in {NextLine(obj, entry)} :
         IF o.multipleLine
           THEN obj' = [o EXCEPT !.at = @ + 1] /\ UNCHANGED <<pc, err>>
         ELSE IF EntryErrorFrom(o.Line, 0) # ""
           THEN Raise(EntryErrorFrom(o.Line, 0)) /\ obj' = o
         ELSE obj' = StoreEntry(o) /\ UNCHANGED <<pc, err>>
  /\ UNCHANGED <<inp, fileOpen, opens, warned, blocks>>

\* the loop has seen every line
ParseEnd ==
  /\ pc = "lines"
  /\ obj.at > Len(obj.lines)
  /\ pc' = "parsed"
  /\ UNCHANGED <<inp, fileOpen, opens, obj, warned, blocks, err>>

XsdirNext ==
  \/ ReadSections
  \/ ParseLine
  \/ ParseEnd

SpecXsdir == XsdirInit /\ [][XsdirNext]_vars

\* C16: an entry written over two lines, the first ending with ' +', is
\* parsed into one entry whose fields are those of the same entry written
\* on one line; no field of the continuation line is lost.
C16_ContinuationJoined ==
  (pc \in {"parsed", "error"} /\ inp.k < Len(WordsOf(inp.e))) =>
    /\ pc = "parsed"
    /\ Len(obj.entries) = (IF inp.more THEN 2 ELSE 1)
    /\ obj.entries[1] = xsdir_entry(WordsOf(inp.e))

(***************************************************************************)
(* _secondary_dist on its own, for reaction-type indicators TYR of either  *)
(* sign and of magnitude below and above 100.  The specification SpecYield *)
(* calls it once on an XSS array that holds, from JED on, one law record   *)
(* followed by one yield record: inp is the array with JED and TYR, obj    *)
(* the call's result.  A TYR of magnitude 112 names the yield record: the  *)
(* law record has eleven cells, and JED + 112 - 101 = JED + 11.            *)
(***************************************************************************)
MaxPad == 3

\* NR, NBT[NR], INT[NR], NE, E[NE], Y[NE] with NR = nr and NE = 2
YieldRecord(nr) ==
  (IF nr = 0 THEN <<0>> ELSE <<1, 51, 52>>) \o <<2, 61, 62, 71, 72>>

YieldInputs ==
  {[xss |-> [i \in 1..pad |-> 900 + i] \o DlwRecord(1, 0, law)
              \o YieldRecord(nr),
    JED |-> pad + 1, TYR |-> tyr, nr |-> nr] :
     pad \in 0..MaxPad, law \in {3, 77}, nr \in {0, 1},
     tyr \in {-112, -19, -2, -1, 1, 2, 19, 112}}

YieldInit ==
  /\ inp \in YieldInputs
  /\ pc = "new"
  /\ fileOpen = FALSE
  /\ opens = 0
  /\ obj = [secondary_dist |-> << >>]
  /\ warned = << >>
  /\ blocks = << >>
  /\ err = NoErr

\* self._secondary_dist(loc, LDIS, JED, TYR) for the first reaction of the
\* DLW block (LOCC = 1, LDIS = JED = JXS[11])
CallSecondaryDist ==
  /\ pc = "new"
  /\ \E r \in {SecondaryDist(inp.xss, 1, inp.JED, inp.JED, inp.TYR)} :
       /\ warned' = warned \o r.warn
       /\ IF r.err # ""
            THEN Raise(r.err) /\ UNCHANGED obj
            ELSE /\ pc' = "returned"
                 /\ obj' = [obj EXCEPT !.secondary_dist = <<r.val>>]
                 /\ UNCHANGED err
  /\ UNCHANGED <<inp, fileOpen, opens, blocks>>

YieldNext == CallSecondaryDist

SpecYield == YieldInit /\ [][YieldNext]_vars

\* C17: the yield of a reaction is energy dependent, read at
\* KY = JED + |TYR| - 101, exactly when |TYR| > 100, whatever the sign of
\* TYR; for |TYR| <= 100, negative values included, it is the constant
\* |TYR| and no yield record is read.
C17_KY == inp.JED + Abs(inp.TYR) - 101

C17_Record ==
  [NBT |-> SubSeq(inp.xss, C17_KY + 1, C17_KY + inp.nr),
   INT |-> SubSeq(inp.xss, C17_KY + 1 + inp.nr, C17_KY + 2 * inp.nr),
   energy |-> SubSeq(inp.xss, C17_KY + 2 + 2 * inp.nr,
                     C17_KY + 3 + 2 * inp.nr),
   yields |-> SubSeq(inp.xss, C17_KY + 4 + 2 * inp.nr,
                     C17_KY + 5 + 2 * inp.nr)]

C17_YieldByMagnitude ==
  pc \in {"returned", "error"} =>
    /\ pc = "returned"
    /\ IF Abs(inp.TYR) > 100
         THEN /\ obj.secondary_dist[1].yield.dependent
              /\ obj.secondary_dist[1].yield.table = C17_Record
         ELSE /\ ~obj.secondary_dist[1].yield.dependent
              /\ obj.secondary_dist[1].yield.value = Abs(inp.TYR)
              /\ obj.secondary_dist[1].yield.table = NoYieldTable

(***************************************************************************)
(* The NU block, checked on the decode of whole tables (Spec).             *)
(***************************************************************************)
\* the NU block existed and ended without an exception
C18_AfterNU ==
  /\ Whole
  /\ Len(blocks) >= 2
  /\ blocks[2].name = "NU"
  /\ blocks[2].ran
  /\ ~(pc = "error" /\ err.at = "NU")

\* the record rec is the one that starts at the 1-based position k of the
\* file: its form flag is 1 or 2 and, for the tabular form, its counts, its
\* energies and its values are the cells that follow the flag (the
\* interpolation parameters are the matter of C19)
C18_RecordAt(rec, k) ==
  /\ inp.body[k] \in {1, 2}
  /\ inp.body[k] = 2 =>
       /\ rec.nr = inp.body[k + 1]
       /\ rec.ne = inp.body[k + 2 + 2 * rec.nr]
       /\ rec.E = SubSeq(inp.body, k + 3 + 2 * rec.nr,
                         k + 2 + 2 * rec.nr + rec.ne)
       /\ rec.nubar = SubSeq(inp.body, k + 3 + 2 * rec.nr + rec.ne,
                             k + 2 + 2 * rec.nr + 2 * rec.ne)

\* C18: with K = JXS[2] != 0, if XSS[K] > 0 one record is decoded at K and
\* stored as both prompt and total nubar; if XSS[K] < 0 the prompt record
\* is decoded at K+1 and the total record at K+|XSS[K]|+1; in both cases
\* prompt and total nubar are set after the block.
C18_PromptAndTotal ==
  (C18_AfterNU /\ inp.body[inp.jxs[2]] # 0) =>
    /\ C7_Present("prompt_nubar")
    /\ C7_Present("total_nubar")
    /\ IF inp.body[inp.jxs[2]] > 0
         THEN /\ obj.prompt_nubar = obj.total_nubar
              /\ C18_RecordAt(obj.prompt_nubar, inp.jxs[2])
         ELSE /\ C18_RecordAt(obj.prompt_nubar, inp.jxs[2] + 1)
              /\ C18_RecordAt(obj.total_nubar,
                              inp.jxs[2] + Abs(inp.body[inp.jxs[2]]) + 1)

\* the positions K of the tabular records the NU block decoded, with the
\* attribute each went to
C19_Records ==
  IF ~C18_AfterNU THEN {}
  ELSE IF inp.body[inp.jxs[2]] = 2
    THEN {<<"prompt_nubar", inp.jxs[2]>>, <<"total_nubar", inp.jxs[2]>>}
  ELSE IF inp.body[inp.jxs[2]] < 0
    THEN {<<"prompt_nubar", inp.jxs[2] + 1>>,
          <<"total_nubar", inp.jxs[2] + Abs(inp.body[inp.jxs[2]]) + 1>>}
  ELSE {}

\* C19: a tabular nubar record at K (1-based position of its form flag)
\* has NR = XSS[K+1], NBT = XSS[K+2 .. K+1+NR],
\* INT = XSS[K+2+NR .. K+1+2NR], NE = XSS[K+2+2NR], then NE energies and
\* NE values; NBT and INT do not include the NR cell and are not
\* exchanged.
C19_TabLayout ==
  \A r \in C19_Records :
    /\ obj[r[1]].nr = inp.body[r[2] + 1]
    /\ obj[r[1]].NBT =
         SubSeq(inp.body, r[2] + 2, r[2] + 1 + obj[r[1]].nr)
    /\ obj[r[1]].INT =
         SubSeq(inp.body, r[2] + 2 + obj[r[1]].nr,
                r[2] + 1 + 2 * obj[r[1]].nr)
    /\ obj[r[1]].ne = inp.body[r[2] + 2 + 2 * obj[r[1]].nr]
    /\ obj[r[1]].E =
         SubSeq(inp.body, r[2] + 3 + 2 * obj[r[1]].nr,
                r[2] + 2 + 2 * obj[r[1]].nr + obj[r[1]].ne)
    /\ obj[r[1]].nubar =
         SubSeq(inp.body, r[2] + 3 + 2 * obj[r[1]].nr + obj[r[1]].ne,
                r[2] + 2 + 2 * obj[r[1]].nr + 2 * obj[r[1]].ne)

\* C20: after the NU block of a table whose nubar record at K = JXS[2] is
\* of the polynomial form (XSS[K] = 1), prompt and total nubar are present:
\* the record with NC = XSS[K+1] and its coefficients has been decoded.
C20_PolyDecoded ==
  (C18_AfterNU /\ inp.body[inp.jxs[2]] = 1) =>
    /\ C7_Present("prompt_nubar")
    /\ C7_Present("total_nubar")

\* the NU block existed and was run on a table with delayed-neutron data
C21_DelayedRun ==
  /\ Whole
  /\ Len(blocks) >= 2
  /\ blocks[2].name = "NU"
  /\ blocks[2].ran
  /\ inp.jxs[24] > 0

\* the precursor families, read one after the other from position k on
RECURSIVE C21_Families(_, _)
C21_Families(k, n) ==
  IF n = 0 THEN << >>
  ELSE <<[decay_constant |-> inp.body[k],
          energy |-> SubSeq(inp.body, k + 3 + 2 * inp.body[k + 1],
                            k + 2 + 2 * inp.body[k + 1]
                              + inp.body[k + 2 + 2 * inp.body[k + 1]]),
          probability |->
            SubSeq(inp.body,
                   k + 3 + 2 * inp.body[k + 1]
                     + inp.body[k + 2 + 2 * inp.body[k + 1]],
                   k + 2 + 2 * inp.body[k + 1]
                     + 2 * inp.body[k + 2 + 2 * inp.body[k + 1]])]>>
       \o C21_Families(k + 3 + 2 * inp.body[k + 1]
                         + 2 * inp.body[k + 2 + 2 * inp.body[k + 1]],
                       n - 1)

C21_FamiliesRead ==
  /\ Len(obj.delayed_nubar.secondary_dist) = inp.nxs[8]
  /\ \A i \in 1..inp.nxs[8] :
       /\ obj.delayed_nubar.secondary_dist[i].decay_constant
            = C21_Families(inp.jxs[25], inp.nxs[8])[i].decay_constant
       /\ obj.delayed_nubar.secondary_dist[i].energy
            = C21_Families(inp.jxs[25], inp.nxs[8])[i].energy
       /\ obj.delayed_nubar.secondary_dist[i].probability
            = C21_Families(inp.jxs[25], inp.nxs[8])[i].probability

\* C21: the delayed nubar record (JXS[24] > 0) is the tabular record that
\* starts at JXS[24], wherever the prompt and total records were read, and
\* it carries the NXS[8] precursor families read consecutively from JXS[25].
C21_DelayedAtJXS24 ==
  C21_DelayedRun =>
    /\ ~(pc = "error" /\ err.at = "NU")
    /\ C7_Present("delayed_nubar")
    /\ C18_RecordAt(obj.delayed_nubar, inp.jxs[24])
    /\ C21_FamiliesRead

\* the AND block has been called
C22_AfterAND ==
  /\ Whole
  /\ \E i \in 1..Len(blocks) : blocks[i].name = "AND"

\* the kind of entry a locator that is not positive stands for
C22_Kind(locb) ==
  IF locb = 0 THEN "isotropic" ELSE IF locb = -1 THEN "deferred" ELSE "table"

\* C22: for every NXS[5] >= 0 the LAND block reads the NXS[5]+1 locators at
\* JXS[8]; the AND block gives the entry 'elastic' from locator 0 (also
\* when NXS[5] = 0) and the entry of mt_list[k-1] from locator k, NXS[5]+1
\* entries in all; a locator 0 decodes as isotropic, a locator -1 as the
\* deferred sentinel.
C22_Locators ==
  C22_AfterAND =>
    /\ ~(pc = "error" /\ err.at = "AND")
    /\ obj.LOCB = SubSeq(inp.body, inp.jxs[8], inp.jxs[8] + inp.nxs[5])
    /\ C7_Present("angular_dist")
    /\ Len(obj.angular_dist.elastic) = 1
    /\ obj.angular_dist.elastic[1].kind = C22_Kind(inp.body[inp.jxs[8]])
    /\ DOMAIN obj.angular_dist.mt =
         {inp.body[inp.jxs[3] + k - 1] : k \in 1..inp.nxs[5]}
    /\ \A k \in 1..inp.nxs[5] :
         obj.angular_dist.mt[inp.body[inp.jxs[3] + k - 1]].kind
           = C22_Kind(inp.body[inp.jxs[8] + k])

(***************************************************************************)
(* _angular_data on its own, for angular tables whose locators LC are      *)
(* positive (32 equiprobable bins), zero (isotropic) and negative          *)
(* (tabular).  The specification SpecAngular calls it once on an XSS array *)
(* that holds, from JXS[9] on, one angular table (NE, E[NE], LC[NE])       *)
(* followed by one array of 33 bin cosines and one tabular record: inp is  *)
(* the array with JXS[9] and the locator, obj the call's result.           *)
(***************************************************************************)
MaxAngles == 2

\* the 33 boundaries of 32 equiprobable cosine bins
EquiprobableCells == [j \in 1..33 |-> 500 + j]

\* JJ, NP, cos[NP], pdf[NP], cdf[NP]
TabularCells(np) ==
  <<2, np>> \o [j \in 1..np |-> 600 + j] \o [j \in 1..np |-> 700 + j]
    \o [j \in 1..np |-> 800 + j]

\* the locator LC of a distribution of the given kind in a table of n
\* energies, relative to JXS[9]
LCOf(kind, n) ==
  CASE kind = "equiprobable" -> 2 * n + 2
    [] kind = "isotropic" -> 0
    [] kind = "tabular" -> -(2 * n + 2 + Len(EquiprobableCells))

AngularTable(kinds, np) ==
  <<Len(kinds)>> \o [i \in 1..Len(kinds) |-> 10 + i]
    \o [i \in 1..Len(kinds) |-> LCOf(kinds[i], Len(kinds))]
    \o EquiprobableCells \o TabularCells(np)

AngularInputs ==
  {[xss |-> [i \in 1..pad |-> 900 + i] \o AngularTable(kinds, np),
    jxs9 |-> pad + 1, locb |-> 1, kinds |-> kinds, np |-> np] :
     pad \in 0..MaxPad, np \in {1, 2},
     kinds \in UNION {[1..n -> {"equiprobable", "isotropic", "tabular"}] :
                        n \in 1..MaxAngles}}

AngularInit ==
  /\ inp \in AngularInputs
  /\ pc = "new"
  /\ fileOpen = FALSE
  /\ opens = 0
  /\ obj = [angular_dist |-> << >>]
  /\ warned = << >>
  /\ blocks = << >>
  /\ err = NoErr

\* _angular_data(locb) with jxs9 = JXS[9]
CallAngularData ==
  /\ pc = "new"
  /\ \E r \in {AngularData(inp.xss, inp.jxs9, inp.locb)} :
       IF r.err # ""
         THEN Raise(r.err) /\ UNCHANGED obj
         ELSE /\ pc' = "returned"
              /\ obj' = [obj EXCEPT !.angular_dist = <<r.val>>]
              /\ UNCHANGED err
  /\ UNCHANGED <<inp, fileOpen, opens, warned, blocks>>

AngularNext == CallAngularData

SpecAngular == AngularInit /\ [][AngularNext]_vars

\* the 1-based position of the data that the i-th locator names
C23_At(i) == inp.jxs9 + Abs(LCOf(inp.kinds[i], Len(inp.kinds))) - 1

\* the distribution decoded for the i-th energy
C23_Dist(i) == obj.angular_dist[1].dist[10 + i]

\* C23: for a locator L > 0 and each pair (E, lc) of its table, lc > 0
\* gives an equiprobable record whose cos field is the array of bin cosines
\* in the consecutive cells from JXS[9]+lc-1 on, with the uniform pdf 1/32
\* (32 equal entries); lc = 0 gives isotropic with cos = [-1, 1]; lc < 0
\* gives the tabular record at JXS[9]+|lc|-1: JJ, NP and cos, pdf, cdf of
\* length NP each.
C23_AngularKinds ==
  pc \in {"returned", "error"} =>
    /\ pc = "returned"
    /\ \A i \in 1..Len(inp.kinds) :
         /\ C23_Dist(i).type = inp.kinds[i]
         /\ inp.kinds[i] = "equiprobable" =>
              /\ Len(C23_Dist(i).cos) > 1
              /\ C23_Dist(i).cos =
                   SubSeq(inp.xss, C23_At(i),
                          C23_At(i) + Len(C23_Dist(i).cos) - 1)
              /\ Len(C23_Dist(i).pdf) = 32
              /\ \A j \in 1..32 : C23_Dist(i).pdf[j] = C23_Dist(i).pdf[1]
         /\ inp.kinds[i] = "isotropic" => C23_Dist(i).cos = <<-1, 1>>
         /\ inp.kinds[i] = "tabular" =>
              /\ C23_Dist(i).interp = inp.xss[C23_At(i)]
              /\ inp.xss[C23_At(i) + 1] = inp.np
              /\ C23_Dist(i).cos =
                   SubSeq(inp.xss, C23_At(i) + 2, C23_At(i) + 1 + inp.np)
              /\ C23_Dist(i).pdf =
                   SubSeq(inp.xss, C23_At(i) + 2 + inp.np,
                          C23_At(i) + 1 + 2 * inp.np)
              /\ C23_Dist(i).cdf =
                   SubSeq(inp.xss, C23_At(i) + 2 + 2 * inp.np,
                          C23_At(i) + 1 + 3 * inp.np)

(***************************************************************************)
(* The tabular laws 4, 44 and 61 on their own.  The specification          *)
(* SpecTabular constructs one law object on an XSS array that holds, from  *)
(* LDAT on, the incident-energy table (NR, NBT, INT, NE, Ein[NE], L[NE])   *)
(* and then one record per incident energy: INTT', NP, Eout[NP], pdf[NP],  *)
(* cdf[NP], followed by R[NP], A[NP] (law 44) or by LC[NP] and the angular *)
(* records that LC names (law 61).  inp is the array with LDAT, LDIS and   *)
(* what the array was built from; obj is the constructed object.           *)
(***************************************************************************)
MaxNP == 2

\* the incident-energy arrays: one energy, two energies, the same energy
\* twice
EinArrays == {<<31>>, <<31, 32>>, <<31, 31>>}

\* the stored interpolation values: at most 10, and ND*10 + INTT
InterpValues == {1, 2, 10, 12, 21}

\* the angular record of bin k of incident energy i: JJ, NP = 1, cos, pdf,
\* cdf
AngleCells(i, k) ==
  <<2, 1, 600 + 10 * i + k, 700 + 10 * i + k, 800 + 10 * i + k>>

\* the number of tabular bins among the first k bins
RECURSIVE TabularBefore(_, _)
TabularBefore(kinds, k) ==
  IF k = 0 THEN 0
  ELSE TabularBefore(kinds, k - 1) + (IF kinds[k] = "tabular" THEN 1 ELSE 0)

\* the place (1, 2, ...) among the angular records of an incident energy
\* that the record of tabular bin k takes: in the order of the bins, or in
\* the reverse order
AngleSlot(kinds, desc, k) ==
  IF desc THEN TabularBefore(kinds, Len(kinds)) + 1 - TabularBefore(kinds, k)
  ELSE TabularBefore(kinds, k)

\* the bin whose record takes place s
AngleBin(kinds, desc, s) ==
  CHOOSE k \in 1..Len(kinds) :
    kinds[k] = "tabular" /\ AngleSlot(kinds, desc, k) = s

\* the number of cells of the record of one incident energy
EnergyBlockLen(law, kinds) ==
  CASE law = 4 -> 2 + 3 * Len(kinds)
    [] law = 44 -> 2 + 5 * Len(kinds)
    [] law = 61 -> 2 + 4 * Len(kinds)
                     + 5 * TabularBefore(kinds, Len(kinds))

\* the record of incident energy i, which starts at position at relative
\* to LDIS (position 1 is LDIS)
EnergyBlock(law, i, at, v, kinds, desc) ==
  <<v, Len(kinds)>>
    \o [k \in 1..Len(kinds) |-> 100 * i + 10 + k]
    \o [k \in 1..Len(kinds) |-> 100 * i + 20 + k]
    \o [k \in 1..Len(kinds) |-> 100 * i + 30 + k]
    \o (CASE law = 4 -> << >>
          [] law = 44 -> [k \in 1..Len(kinds) |-> 100 * i + 40 + k]
                           \o [k \in 1..Len(kinds) |-> 100 * i + 50 + k]
          [] law = 61 ->
               [k \in 1..Len(kinds) |->
                  IF kinds[k] = "tabular"
                  THEN at + 2 + 4 * Len(kinds)
                         + 5 * (AngleSlot(kinds, desc, k) - 1)
                  ELSE 0]
               \o [c \in 1..(5 * TabularBefore(kinds, Len(kinds))) |->
                     AngleCells(i, AngleBin(kinds, desc, ((c - 1) \div 5) + 1))
                       [((c - 1) % 5) + 1]])

\* NR = 0, NE, Ein[NE], L[NE] and the records of the incident energies
TabularRecord(law, Ein, v, kinds, desc) ==
  <<0, Len(Ein)>> \o Ein \o [i \in 1..Len(Ein) |-> 0]
    \o [c \in 1..(Len(Ein) * EnergyBlockLen(law, kinds)) |->
          EnergyBlock(law, ((c - 1) \div EnergyBlockLen(law, kinds)) + 1,
                      2 + 2 * Len(Ein) + 1
                        + ((c - 1) \div EnergyBlockLen(law, kinds))
                            * EnergyBlockLen(law, kinds),
                      v, kinds, desc)
            [((c - 1) % EnergyBlockLen(law, kinds)) + 1]]

TabularInputs ==
  {[xss |-> [i \in 1..pad |-> 900 + i]
              \o TabularRecord(law, Ein, v, kinds, desc),
    LDAT |-> pad + 1, LDIS |-> pad + 1, law |-> law, Ein |-> Ein, v |-> v,
    kinds |-> kinds, desc |-> desc] :
     pad \in 0..MaxPad, law \in {4, 44, 61}, Ein \in EinArrays,
     v \in InterpValues, desc \in BOOLEAN,
     kinds \in UNION {[1..n -> {"tabular", "isotropic"}] : n \in 1..MaxNP}}

\* _tabular_distribution._process up to the call of
\* _process_outgoing_distribution
TabularPrelude(LDAT, xss) ==
  LET NR == Rd(xss, (LDAT + (1 - 1)) - 1)
      K == LDAT + (2 - 1) + 2 * NR
      NE == Rd(xss, K - 1)
  IN  [err |-> IF InRange(xss, (LDAT + (1 - 1)) - 1) /\ InRange(xss, K - 1)
               THEN "" ELSE "IndexError",
       nr |-> NR,
       NBT |-> Slice(xss, (LDAT + (2 - 1) + 0 * NR) - 1,
                     (LDAT + (2 - 1) + 1 * NR) - 1),
       INT |-> Slice(xss, (LDAT + (2 - 1) + 1 * NR) - 1,
                     (LDAT + (2 - 1) + 2 * NR) - 1),
       ne |-> NE,
       Ein |-> Slice(xss, ((K + 1) + 0 * NE) - 1, ((K + 1) + 1 * NE) - 1),
       loc |-> Slice(xss, ((K + 1) + 1 * NE) - 1, ((K + 1) + 2 * NE) - 1)]

\* Law4: _ND = int(inttp); _INTT = inttp - 10*_ND when inttp > 10
Law4Interp(inttp) ==
  IF inttp > 10 THEN inttp - 10 * inttp ELSE inttp

\* the loop of Law4._process_outgoing_distribution from the i-th incident
\* energy on; outgoing is keyed by the energy
RECURSIVE Law4Loop(_, _, _, _, _)
Law4Loop(xss, Ein, i, K, outgoing) ==
  IF i > Len(Ein) THEN [err |-> "", outgoing |-> outgoing, cursor |-> << >>]
  ELSE IF ~(InRange(xss, K - 1) /\ InRange(xss, (K + 1) - 1))
  THEN [err |-> "IndexError", outgoing |-> outgoing, cursor |-> << >>]
  ELSE Law4Loop(xss, Ein, i + 1, K + 2 + 3 * Rd(xss, (K + 1) - 1),
         Put(outgoing, Ein[i],
             [np |-> Law4Interp(Rd(xss, K - 1)),
              Eout |-> Slice(xss, (K + 2 + 0 * Rd(xss, (K + 1) - 1)) - 1,
                             (K + 2 + 1 * Rd(xss, (K + 1) - 1)) - 1),
              pdf |-> Slice(xss, (K + 2 + 1 * Rd(xss, (K + 1) - 1)) - 1,
                            (K + 2 + 2 * Rd(xss, (K + 1) - 1)) - 1),
              cdf |-> Slice(xss, (K + 2 + 2 * Rd(xss, (K + 1) - 1)) - 1,
                            (K + 2 + 3 * Rd(xss, (K + 1) - 1)) - 1)]))

\* the loop of Law44._process_outgoing_distribution; for inttp > 10 it
\* evaluates self._ND, an attribute no law object has
RECURSIVE Law44Loop(_, _, _, _, _)
Law44Loop(xss, Ein, i, K, outgoing) ==
  IF i > Len(Ein) THEN [err |-> "", outgoing |-> outgoing, cursor |-> << >>]
  ELSE IF ~InRange(xss, K - 1)
  THEN [err |-> "IndexError", outgoing |-> outgoing, cursor |-> << >>]
  ELSE IF Rd(xss, K - 1) > 10
  THEN [err |-> "AttributeError", outgoing |-> outgoing, cursor |-> << >>]
  ELSE IF ~InRange(xss, (K + 1) - 1)
  THEN [err |-> "IndexError", outgoing |-> outgoing, cursor |-> << >>]
  ELSE Law44Loop(xss, Ein, i + 1, K + 2 + 5 * Rd(xss, (K + 1) - 1),
         Put(outgoing, Ein[i],
             [np |-> Rd(xss, K - 1),
              Eout |-> Slice(xss, (K + 2 + 0 * Rd(xss, (K + 1) - 1)) - 1,
                             (K + 2 + 1 * Rd(xss, (K + 1) - 1)) - 1),
              pdf |-> Slice(xss, (K + 2 + 1 * Rd(xss, (K + 1) - 1)) - 1,
                            (K + 2 + 2 * Rd(xss, (K + 1) - 1)) - 1),
              cdf |-> Slice(xss, (K + 2 + 2 * Rd(xss, (K + 1) - 1)) - 1,
                            (K + 2 + 3 * Rd(xss, (K + 1) - 1)) - 1),
              R |-> Slice(xss, (K + 2 + 3 * Rd(xss, (K + 1) - 1)) - 1,
                          (K + 2 + 4 * Rd(xss, (K + 1) - 1)) - 1),
              A |-> Slice(xss, (K + 2 + 4 * Rd(xss, (K + 1) - 1)) - 1,
                          (K + 2 + 5 * Rd(xss, (K + 1) - 1)) - 1)]))

\* the angular record Law61 reads at L = LDIS + abs(loc) - 1
Law61Angle(xss, L) ==
  [type |-> "tabular", interp |-> Rd(xss, (L + (1 - 1)) - 1),
   np |-> Rd(xss, (L + (2 - 1)) - 1),
   cos |-> Slice(xss, (L + (3 - 1) + 0 * Rd(xss, (L + (2 - 1)) - 1)) - 1,
                 (L + (3 - 1) + 1 * Rd(xss, (L + (2 - 1)) - 1)) - 1),
   pdf |-> Slice(xss, (L + (3 - 1) + 1 * Rd(xss, (L + (2 - 1)) - 1)) - 1,
                 (L + (3 - 1) + 2 * Rd(xss, (L + (2 - 1)) - 1)) - 1),
   cdf |-> Slice(xss, (L + (3 - 1) + 2 * Rd(xss, (L + (2 - 1)) - 1)) - 1,
                 (L + (3 - 1) + 3 * Rd(xss, (L + (2 - 1)) - 1)) - 1)]

Law61Isotropic ==
  [type |-> "isotropic", interp |-> 0, np |-> 0, cos |-> << >>,
   pdf |-> << >>, cdf |-> << >>]

\* the names L, _aNP and dist of Law61._process_outgoing_distribution: a
\* name is unbound (<< >>) until its first assignment and keeps its value
\* from one bin, and one incident energy, to the next
Law61Unbound == [L |-> << >>, aNP |-> << >>, dist |-> << >>]

\* 'for loc in _LC' from the j-th locator on: the exception, the names and
\* angle_dist
RECURSIVE Law61Bins(_, _, _, _, _, _)
Law61Bins(xss, LDIS, LC, j, names, angle_dist) ==
  IF j > Len(LC)
  THEN [err |-> "", names |-> names, angle_dist |-> angle_dist]
  ELSE IF LC[j] > 0
  THEN IF ~(InRange(xss, ((LDIS + Abs(LC[j]) - 1) + (1 - 1)) - 1)
            /\ InRange(xss, ((LDIS + Abs(LC[j]) - 1) + (2 - 1)) - 1))
       THEN [err |-> "IndexError", names |-> names,
             angle_dist |-> angle_dist]
       ELSE Law61Bins(xss, LDIS, LC, j + 1,
              [L |-> <<LDIS + Abs(LC[j]) - 1>>,
               aNP |-> <<Rd(xss, ((LDIS + Abs(LC[j]) - 1) + (2 - 1)) - 1)>>,
               dist |-> <<Law61Angle(xss, LDIS + Abs(LC[j]) - 1)>>],
              Append(angle_dist, Law61Angle(xss, LDIS + Abs(LC[j]) - 1)))
  ELSE IF LC[j] = 0
  THEN Law61Bins(xss, LDIS, LC, j + 1,
                 [names EXCEPT !.dist = <<Law61Isotropic>>],
                 Append(angle_dist, Law61Isotropic))
  ELSE IF names.dist = << >>
  THEN [err |-> "NameError", names |-> names, angle_dist |-> angle_dist]
  ELSE Law61Bins(xss, LDIS, LC, j + 1, names,
                 Append(angle_dist, names.dist[1]))

\* the record Law61 stores for one incident energy whose data are at K
Law61Record(xss, K, angle_dist) ==
  [interp |-> Rd(xss, K - 1), np |-> Rd(xss, (K + 1) - 1),
   Eout |-> Slice(xss, (K + 2 + 0 * Rd(xss, (K + 1) - 1)) - 1,
                  (K + 2 + 1 * Rd(xss, (K + 1) - 1)) - 1),
   pdf |-> Slice(xss, (K + 2 + 1 * Rd(xss, (K + 1) - 1)) - 1,
                 (K + 2 + 2 * Rd(xss, (K + 1) - 1)) - 1),
   cdf |-> Slice(xss, (K + 2 + 2 * Rd(xss, (K + 1) - 1)) - 1,
                 (K + 2 + 3 * Rd(xss, (K + 1) - 1)) - 1),
   angle |-> angle_dist]

\* _LC of the record at K
Law61LC(xss, K) ==
  Slice(xss, (K + 2 + 3 * Rd(xss, (K + 1) - 1)) - 1,
        (K + 2 + 4 * Rd(xss, (K + 1) - 1)) - 1)

\* the loop of Law61._process_outgoing_distribution from the i-th incident
\* energy on.  cursor lists the value of K at the end of each iteration.
RECURSIVE Law61Loop(_, _, _, _, _, _, _, _)

\* the end of one iteration, bins being what the loop over _LC gave:
\* K = L+(3-1)+3*_aNP, then the record is stored
Law61After(xss, LDIS, Ein, i, K, bins, outgoing, cursor) ==
  IF bins.err # ""
  THEN [err |-> bins.err, outgoing |-> outgoing, cursor |-> cursor]
  ELSE IF bins.names.L = << >>
  THEN [err |-> "NameError", outgoing |-> outgoing, cursor |-> cursor]
  ELSE Law61Loop(xss, LDIS, Ein, i + 1,
                 bins.names.L[1] + (3 - 1) + 3 * bins.names.aNP[1],
                 bins.names,
                 Put(outgoing, Ein[i], Law61Record(xss, K, bins.angle_dist)),
                 Append(cursor,
                        bins.names.L[1] + (3 - 1) + 3 * bins.names.aNP[1]))

Law61Loop(xss, LDIS, Ein, i, K, names, outgoing, cursor) ==
  IF i > Len(Ein)
  THEN [err |-> "", outgoing |-> outgoing, cursor |-> cursor]
  ELSE IF ~InRange(xss, K - 1)
  THEN [err |-> "IndexError", outgoing |-> outgoing, cursor |-> cursor]
  ELSE IF Rd(xss, K - 1) > 10
  THEN [err |-> "AttributeError", outgoing |-> outgoing, cursor |-> cursor]
  ELSE IF ~InRange(xss, (K + 1) - 1)
  THEN [err |-> "IndexError", outgoing |-> outgoing, cursor |-> cursor]
  ELSE Law61After(xss, LDIS, Ein, i, K,
                  Law61Bins(xss, LDIS, Law61LC(xss, K), 1, names, << >>),
                  outgoing, cursor)

TabularInit ==
  /\ inp \in TabularInputs
  /\ pc = "new"
  /\ fileOpen = FALSE
  /\ opens = 0
  /\ obj = [law |-> 0, Ein |-> << >>, outgoing |-> << >>, cursor |-> << >>]
  /\ warned = << >>
  /\ blocks = << >>
  /\ err = NoErr

\* the law object: _tabular_distribution._process followed by the loop of
\* the law, which starts at K = LDAT + (3+2*nr+2*ne) - 1
TabularObject(law, p, r) ==
  [err |-> IF p.err # "" THEN p.err ELSE r.err,
   val |-> [law |-> law, nr |-> p.nr, NBT |-> p.NBT, INT |-> p.INT,
            ne |-> p.ne, Ein |-> p.Ein, loc |-> p.loc,
            outgoing |-> r.outgoing, cursor |-> r.cursor]]

Law4(LDAT, xss, p) ==
  TabularObject(4, p,
    Law4Loop(xss, p.Ein, 1, LDAT + (3 + 2 * p.nr + 2 * p.ne) - 1, << >>))

Law44(LDAT, xss, p) ==
  TabularObject(44, p,
    Law44Loop(xss, p.Ein, 1, LDAT + (3 + 2 * p.nr + 2 * p.ne) - 1, << >>))

Law61(LDAT, LDIS, xss, p) ==
  TabularObject(61, p,
    Law61Loop(xss, LDIS, p.Ein, 1, LDAT + (3 + 2 * p.nr + 2 * p.ne) - 1,
              Law61Unbound, << >>, << >>))

\* the constructor returns the object or raises
Constructed(r) ==
  IF r.err # ""
  THEN Raise(r.err) /\ UNCHANGED obj
  ELSE /\ pc' = "constructed"
       /\ obj' = r.val
       /\ UNCHANGED err

\* Law4(ldat, LDIS, xss)
CallLaw4 ==
  /\ pc = "new"
  /\ inp.law = 4
  /\ \E r \in {Law4(inp.LDAT, inp.xss, TabularPrelude(inp.LDAT, inp.xss))} :
       Constructed(r)
  /\ UNCHANGED <<inp, fileOpen, opens, warned, blocks>>

\* Law44(ldat, LDIS, xss)
CallLaw44 ==
  /\ pc = "new"
  /\ inp.law = 44
  /\ \E r \in {Law44(inp.LDAT, inp.xss, TabularPrelude(inp.LDAT, inp.xss))} :
       Constructed(r)
  /\ UNCHANGED <<inp, fileOpen, opens, warned, blocks>>

\* Law61(ldat, LDIS, xss)
CallLaw61 ==
  /\ pc = "new"
  /\ inp.law = 61
  /\ \E r \in {Law61(inp.LDAT, inp.LDIS, inp.xss,
                     TabularPrelude(inp.LDAT, inp.xss))} :
       Constructed(r)
  /\ UNCHANGED <<inp, fileOpen, opens, warned, blocks>>

TabularNext == CallLaw4 \/ CallLaw44 \/ CallLaw61

SpecTabular == TabularInit /\ [][TabularNext]_vars

\* the field in which the law's record keeps the interpolation flag: Law4
\* and Law44 name it np, Law61 interp
C24_INTT(rec) == IF inp.law = 61 THEN rec.interp ELSE rec.np

\* the law-61 inputs whose angular locators the decoder follows to the end
\* of the record: every bin tabular, offsets in the order of the bins
C24_PlainBins ==
  inp.law = 61 =>
    /\ ~inp.desc
    /\ \A k \in 1..Len(inp.kinds) : inp.kinds[k] = "tabular"

\* C24: laws 4, 44, 61: for every incident energy whose stored
\* interpolation value v is greater than 10 the decoder completes and
\* records ND = v div 10 and INTT = v mod 10; for v <= 10 it records
\* INTT = v and no discrete lines; the three laws treat v alike.
C24_InterpSplit ==
  (pc # "new" /\ C24_PlainBins) =>
    /\ pc = "constructed"
    /\ \A i \in 1..Len(inp.Ein) :
         /\ inp.Ein[i] \in DOMAIN obj.outgoing
         /\ IF inp.v > 10
            THEN /\ C24_INTT(obj.outgoing[inp.Ein[i]]) = inp.v % 10
                 /\ "ND" \in DOMAIN obj.outgoing[inp.Ein[i]]
                 /\ obj.outgoing[inp.Ein[i]].ND = inp.v \div 10
            ELSE /\ C24_INTT(obj.outgoing[inp.Ein[i]]) = inp.v
                 /\ "ND" \in DOMAIN obj.outgoing[inp.Ein[i]] =>
                      obj.outgoing[inp.Ein[i]].ND = 0

\* the incident energies of the input are distinct
C25_DistinctEin ==
  \A i, j \in 1..Len(inp.Ein) : inp.Ein[i] = inp.Ein[j] => i = j

\* the position one past the last cell of the record of incident energy i
C25_EndOf(i) ==
  inp.LDAT + 2 + 2 * Len(inp.Ein) + i * EnergyBlockLen(61, inp.kinds)

\* C25: law 61: for every incident energy, whatever its angular locators
\* LC (all tabular, some zero, all zero, offsets in any order), the decode
\* completes, a bin with LC[k] = 0 is recorded as isotropic and a bin with
\* LC[k] > 0 as its own tabular record, and afterwards K is one past the
\* highest XSS index consumed for that incident energy.
C25_Law61Cursor ==
  (pc # "new" /\ inp.law = 61 /\ inp.v <= 10 /\ C25_DistinctEin) =>
    /\ pc = "constructed"
    /\ Len(obj.cursor) = Len(inp.Ein)
    /\ \A i \in 1..Len(inp.Ein) :
         /\ obj.cursor[i] = C25_EndOf(i)
         /\ Len(obj.outgoing[inp.Ein[i]].angle) = Len(inp.kinds)
         /\ \A k \in 1..Len(inp.kinds) :
              /\ obj.outgoing[inp.Ein[i]].angle[k].type = inp.kinds[k]
              /\ inp.kinds[k] = "tabular" =>
                   obj.outgoing[inp.Ein[i]].angle[k].cos
                     = <<600 + 10 * i + k>>

\* C28: law 4 (likewise 44, 61) keeps one outgoing record per incident
\* energy: after the decode the number of outgoing records equals NE, also
\* when the same energy value occurs twice in Ein; no record is overwritten
\* by a later one.
C28_RecordPerEnergy ==
  pc = "constructed" =>
    /\ obj.ne = Len(inp.Ein)
    /\ Cardinality(DOMAIN obj.outgoing) = obj.ne

(***************************************************************************)
(* The spectrum laws 5, 7, 9 and 11 on their own.  The specification       *)
(* SpecSpectrum constructs one law object on an XSS array that holds, from *)
(* LDAT on, the spectrum record NR, NBT[NR], INT[NR], NE, Ein[NE], T[NE]   *)
(* followed by the data of the law: U (laws 7, 9 and 11) or NET and X[NET] *)
(* (law 5).  inp is the array with LDAT and what it was built from; obj is *)
(* the constructed object.                                                 *)
(***************************************************************************)
MaxNE == 2

\* NR, NBT[NR], INT[NR], NE, Ein[NE], T[NE]
SpectrumPreludeCells(nr, ne) ==
  (IF nr = 0 THEN <<0>> ELSE <<1, 51, 52>>) \o <<ne>>
    \o [i \in 1..ne |-> 30 + i] \o [i \in 1..ne |-> 40 + i]

\* what follows T: U, or NET = 2 and X[NET]
SpectrumExtraCells(law) ==
  IF law = 5 THEN <<2, 71, 72>> ELSE <<61>>

SpectrumInputs ==
  {[xss |-> [i \in 1..pad |-> 900 + i] \o SpectrumPreludeCells(nr, ne)
              \o SpectrumExtraCells(law),
    LDAT |-> pad + 1, LDIS |-> pad + 1, law |-> law, nr |-> nr, ne |-> ne] :
     pad \in 0..MaxPad, law \in {5, 7, 9, 11}, nr \in {0, 1},
     ne \in 1..MaxNE}

\* _spectrum_distribution._process up to the call of _process_extras;
\* self.K is assigned before K += 1
SpectrumPrelude(LDAT, xss) ==
  LET NR == Rd(xss, (LDAT + (1 - 1)) - 1)
      K == LDAT + (2 - 1) + 2 * NR
      NE == Rd(xss, K - 1)
  IN  [err |-> IF InRange(xss, (LDAT + (1 - 1)) - 1) /\ InRange(xss, K - 1)
               THEN "" ELSE "IndexError",
       nr |-> NR,
       NBT |-> Slice(xss, (LDAT + (2 - 1) + 0 * NR) - 1,
                     (LDAT + (2 - 1) + 1 * NR) - 1),
       INT |-> Slice(xss, (LDAT + (2 - 1) + 1 * NR) - 1,
                     (LDAT + (2 - 1) + 2 * NR) - 1),
       K |-> K,
       ne |-> NE,
       Ein |-> Slice(xss, ((K + 1) + 0 * NE) - 1, ((K + 1) + 1 * NE) - 1),
       T |-> Slice(xss, ((K + 1) + 1 * NE) - 1, ((K + 1) + 2 * NE) - 1)]

\* Law7._process_extras, Law9._process_extras:
\* K = self.K; self.U = self.xss[(K+2*self.ne)-1]
RestrictionEnergy(xss, p) ==
  [err |-> IF InRange(xss, (p.K + 2 * p.ne) - 1) THEN "" ELSE "IndexError",
   U |-> Rd(xss, (p.K + 2 * p.ne) - 1)]

\* Law7(LDAT, LDIS, xss) and Law9(LDAT, LDIS, xss)
SpectrumObject(law, p, x) ==
  [err |-> IF p.err # "" THEN p.err ELSE x.err,
   warn |-> << >>,
   val |-> [law |-> law, process |-> "_spectrum_distribution",
            nr |-> p.nr, NBT |-> p.NBT, INT |-> p.INT, K |-> p.K,
            ne |-> p.ne, Ein |-> p.Ein, T |-> p.T, U |-> x.U]]

Law7(LDAT, xss) ==
  SpectrumObject(7, SpectrumPrelude(LDAT, xss),
                 RestrictionEnergy(xss, SpectrumPrelude(LDAT, xss)))

Law9(LDAT, xss) ==
  SpectrumObject(9, SpectrumPrelude(LDAT, xss),
                 RestrictionEnergy(xss, SpectrumPrelude(LDAT, xss)))

SpectrumInit ==
  /\ inp \in SpectrumInputs
  /\ pc = "new"
  /\ fileOpen = FALSE
  /\ opens = 0
  /\ obj = [law |-> 0, process |-> ""]
  /\ warned = << >>
  /\ blocks = << >>
  /\ err = NoErr

\* the constructor warns, then returns the object or raises
SpectrumConstructed(r) ==
  /\ warned' = warned \o r.warn
  /\ IF r.err # ""
     THEN Raise(r.err) /\ UNCHANGED obj
     ELSE /\ pc' = "constructed"
          /\ obj' = r.val
          /\ UNCHANGED err
  /\ UNCHANGED <<inp, fileOpen, opens, blocks>>

\* Law5(ldat, LDIS, xss): Law5 keeps _Law_base._process
CallLaw5 ==
  /\ pc = "new"
  /\ inp.law = 5
  /\ SpectrumConstructed(LawBase(5))

\* Law7(ldat, LDIS, xss)
CallLaw7 ==
  /\ pc = "new"
  /\ inp.law = 7
  /\ \E r \in {Law7(inp.LDAT, inp.xss)} : SpectrumConstructed(r)

\* Law9(ldat, LDIS, xss)
CallLaw9 ==
  /\ pc = "new"
  /\ inp.law = 9
  /\ \E r \in {Law9(inp.LDAT, inp.xss)} : SpectrumConstructed(r)

\* Law11(ldat, LDIS, xss): Law11 keeps _Law_base._process
CallLaw11 ==
  /\ pc = "new"
  /\ inp.law = 11
  /\ SpectrumConstructed(LawBase(11))

SpectrumNext == CallLaw5 \/ CallLaw7 \/ CallLaw9 \/ CallLaw11

SpecSpectrum == SpectrumInit /\ [][SpectrumNext]_vars

\* the 1-based position of the NE cell of the input's record
C26_AtNE == inp.LDAT + 1 + 2 * inp.nr

\* the object holds the spectrum prelude of the input's record
C26_Prelude ==
  /\ {"nr", "NBT", "INT", "ne", "Ein", "T"} \subseteq DOMAIN obj
  /\ obj.nr = inp.nr
  /\ obj.NBT = SubSeq(inp.xss, inp.LDAT + 1, inp.LDAT + inp.nr)
  /\ obj.INT = SubSeq(inp.xss, inp.LDAT + 1 + inp.nr, inp.LDAT + 2 * inp.nr)
  /\ obj.ne = inp.ne
  /\ obj.Ein = SubSeq(inp.xss, C26_AtNE + 1, C26_AtNE + inp.ne)
  /\ obj.T = SubSeq(inp.xss, C26_AtNE + inp.ne + 1, C26_AtNE + 2 * inp.ne)

\* C26: a secondary distribution with LAW = 5 or LAW = 11 gets, like laws 7
\* and 9, a populated payload: the spectrum prelude read at LDAT (NR, NBT,
\* INT, NE, Ein, T) plus the law's extra data (X[NET] for law 5, U for law
\* 11); the payload is never left empty for these two laws.
C26_Laws5And11Decoded ==
  (pc # "new" /\ inp.law \in {5, 11}) =>
    /\ pc = "constructed"
    /\ C26_Prelude
    /\ inp.law = 5 => "X" \in DOMAIN obj
    /\ inp.law = 11 => "U" \in DOMAIN obj

\* C27: laws 7 and 9: U is read from the XSS cell immediately after the
\* last element of T, so the cell decoded as U is none of the cells decoded
\* as Ein or T (NR >= 0, NE >= 1).
C27_UBehindT ==
  (pc # "new" /\ inp.law \in {7, 9}) =>
    /\ pc = "constructed"
    /\ obj.U = inp.xss[C26_AtNE + 2 * inp.ne + 1]
    /\ \A i \in 1..inp.ne : obj.U # obj.Ein[i] /\ obj.U # obj.T[i]

(***************************************************************************)
(* The cross-section records of an S(alpha,beta) table.  The specification *)
(* SpecSaB runs the two blocks of SaB._processXSS that store records in    *)
(* self.xs, _ITIEBlock and _ITCEBlock, on an XSS array that holds the      *)
(* inelastic table at JXS[1] (NE_in, E_in, sigma_in) and, when JXS[4] is   *)
(* not 0, the elastic table at JXS[4] (NE_el, E_el, sigma_el).  A          *)
(* cross-section value is kept as the quotient the code computes, the pair *)
(* of its numerator and denominator; the integer keys 4 and 2 of self.xs   *)
(* are written "4" and "2".                                                *)
(***************************************************************************)
MaxNEel == 3

\* NE, E[NE], sigma[NE] with increasing energies
ThermalTable(ne, base) ==
  <<ne>> \o [i \in 1..ne |-> base + i] \o [i \in 1..ne |-> base + 50 + i]

\* nEel = 0 stands for a table without elastic data (JXS[4] = 0)
SaBInputs ==
  {[XSS |-> [i \in 1..pad |-> 900 + i] \o ThermalTable(nEin, 100)
              \o (IF nEel = 0 THEN << >> ELSE ThermalTable(nEel, 200)),
    JXS1 |-> pad + 1,
    JXS4 |-> IF nEel = 0 THEN 0 ELSE pad + 1 + 1 + 2 * nEin,
    NXS5 |-> mode, nEin |-> nEin, nEel |-> nEel] :
     pad \in 0..MaxPad, nEin \in 1..MaxNE, nEel \in 0..MaxNEel,
     mode \in {3, 4}}

\* x/y, and x/y*1E-2
Quotient(x, y) == [num |-> x, den |-> y]

Values(xs) == [i \in 1..Len(xs) |-> Quotient(xs[i], 1)]

SaBInit ==
  /\ inp \in SaBInputs
  /\ pc = "new"
  /\ fileOpen = FALSE
  /\ opens = 0
  /\ obj = [xs |-> << >>, nEin |-> << >>, nEel |-> << >>]
  /\ warned = << >>
  /\ blocks = << >>
  /\ err = NoErr

\* _ITIEBlock: the record of the inelastic cross section, under the keys
\* 'inelastic' and 4
ITIEBlock ==
  /\ pc = "new"
  /\ IF ~InRange(inp.XSS, (inp.JXS1 + 0) - 1)
     THEN Raise("IndexError") /\ UNCHANGED obj
     ELSE \E n \in {Rd(inp.XSS, (inp.JXS1 + 0) - 1)} :
            \E r \in {XS(4, Slice(inp.XSS, (inp.JXS1 + 1) - 1,
                                  (inp.JXS1 + 1 + n) - 1),
                         Values(Slice(inp.XSS, (inp.JXS1 + 1 + 1 * n) - 1,
                                      (inp.JXS1 + 1 + 2 * n) - 1)))} :
              /\ pc' = "ITIE"
              /\ obj' = [obj EXCEPT !.nEin = <<n>>,
                                    !.xs = Put(Put(obj.xs, "inelastic", r),
                                               "4", r)]
              /\ UNCHANGED err
  /\ UNCHANGED <<inp, fileOpen, opens, warned, blocks>>

\* the "un-normalize" loop of _ITCEBlock from index i (0-based) on
RECURSIVE UnNormalize(_, _, _, _, _)
UnNormalize(Eel, sigma_el, i, Energies, xs) ==
  IF i >= Len(Eel) THEN [Energies |-> Energies, xs |-> xs]
  ELSE UnNormalize(Eel, sigma_el, i + 1,
         Energies \o <<Eel[(i - 1) + 1], Eel[i + 1]>>,
         xs \o <<Quotient(sigma_el[(i - 1) + 1], Eel[(i - 1) + 1]),
                 Quotient(sigma_el[(i - 1) + 1], Eel[i + 1])>>)

\* Energies and xs of _ITCEBlock; Eel[0] of an empty array raises
ElasticArrays(NXS5, Eel, sigma_el) ==
  IF NXS5 = 4
  THEN IF Len(Eel) = 0 \/ Len(sigma_el) = 0
       THEN [err |-> "IndexError", Energies |-> << >>, xs |-> << >>]
       ELSE [err |-> "",
             Energies |-> UnNormalize(Eel, sigma_el, 1, <<Eel[1]>>,
                            <<Quotient(sigma_el[1], Eel[1] * 100)>>).Energies,
             xs |-> UnNormalize(Eel, sigma_el, 1, <<Eel[1]>>,
                      <<Quotient(sigma_el[1], Eel[1] * 100)>>).xs]
  ELSE [err |-> "", Energies |-> Eel, xs |-> Values(sigma_el)]

\* _ITCEBlock: the record of the elastic cross section, under the keys
\* 'elastic' and 2, when JXS[4] is not 0
ITCEBlock ==
  /\ pc = "ITIE"
  /\ IF inp.JXS4 = 0
     THEN /\ pc' = "ITCE"
          /\ UNCHANGED <<obj, err>>
     ELSE IF ~InRange(inp.XSS, inp.JXS4 - 1)
     THEN Raise("IndexError") /\ UNCHANGED obj
     ELSE \E n \in {Rd(inp.XSS, inp.JXS4 - 1)} :
            \E a \in {ElasticArrays(inp.NXS5,
                        Slice(inp.XSS, (inp.JXS4 + 1 + 0 * n) - 1,
                              (inp.JXS4 + 1 + 1 * n) - 1),
                        Slice(inp.XSS, (inp.JXS4 + 1 + 1 * n) - 1,
                              (inp.JXS4 + 1 + 2 * n) - 1))} :
              IF a.err # ""
              THEN Raise(a.err) /\ UNCHANGED obj
              ELSE /\ pc' = "ITCE"
                   /\ obj' = [obj EXCEPT
                        !.nEel = <<n>>,
                        !.xs = Put(Put(obj.xs, "elastic",
                                       XS(2, a.Energies, a.xs)),
                                   "2", XS(2, a.Energies, a.xs))]
                   /\ UNCHANGED err
  /\ UNCHANGED <<inp, fileOpen, opens, warned, blocks>>

SaBNext == ITIEBlock \/ ITCEBlock

SpecSaB == SaBInit /\ [][SaBNext]_vars

\* C29: every cross-section record stored in a decoded table has energy
\* and value arrays of equal length and a strictly increasing energy array;
\* in particular the S(alpha,beta) elastic record xs[2] that the ITCE block
\* stores when NXS[5] = 4 (the un-normalized form) with NE_el >= 2.
C29_RecordInvariant ==
  \A k \in DOMAIN obj.xs :
    /\ Len(obj.xs[k].Energy) = Len(obj.xs[k].XS)
    /\ \A i \in 1..(Len(obj.xs[k].Energy) - 1) :
         obj.xs[k].Energy[i] < obj.xs[k].Energy[i + 1]

(***************************************************************************)
(* The metadata of a fast-neutron table (src/listing.py, src/metadata.py). *)
(* The specification SpecMeta applies the metadata function of either tool *)
(* to a loaded table ACE: its NXS and JXS arrays and its XSS array, which  *)
(* starts with the ESZ block (JXS[1] = 1): the energy grid of NXS[3]       *)
(* values followed by the total, absorption, elastic and heating arrays.   *)
(* Energies are kept in hundredths, so that rounding to one decimal is     *)
(* seen.                                                                   *)
(***************************************************************************)
\* the energy grid, increasing: 1.04, 2.04, ...
MetaGrid(NE) == [i \in 1..NE |-> 100 * i + 4]

\* ESZ block (energies, total, absorption, elastic, heating), then one cell
\* that JXS[2] may name: the first cell of the nubar data
MetaXSS(NE, knu) ==
  MetaGrid(NE) \o [i \in 1..NE |-> 5000 + 10 * i]
    \o [i \in 1..NE |-> 6000 + 10 * i] \o [i \in 1..NE |-> 7000 + 10 * i]
    \o [i \in 1..NE |-> 8000 + 10 * i] \o <<knu>>

\* the loaded tables: knu is the cell at JXS[2] (0: the table has no nubar
\* data and JXS[2] = 0)
MetaTables ==
  {[NXS |-> [i \in 1..16 |->
               CASE i = 1 -> 5 * NE + 1
                 [] i = 3 -> NE
                 [] i = 7 -> ntype
                 [] OTHER -> 0],
    JXS |-> [i \in 1..32 |->
               CASE i = 1 -> 1
                 [] i = 2 -> IF knu = 0 THEN 0 ELSE 5 * NE + 1
                 [] i = 12 -> gpd[1]
                 [] i = 13 -> gpd[2]
                 [] i = 23 -> ur
                 [] i = 24 -> dn
                 [] OTHER -> 0],
    XSS |-> MetaXSS(NE, knu), ZAID |-> "92235.80c"] :
     NE \in 1..MaxGrid, knu \in {-3, 0, 2}, ntype \in {0, 1},
     gpd \in {0, 5} \X {0, 5}, ur \in {0, 5}, dn \in {0, 5}}

\* round(x, 1) of a number of hundredths
Round1(x) == 10 * ((x + 5) \div 10)

\* the metadata both functions compute from the loaded table
fastNeutron(ACE) ==
  [err |-> IF InRange(ACE.XSS, ACE.NXS[3])
                /\ (ACE.JXS[2] # 0 => InRange(ACE.XSS, ACE.JXS[2] - 1))
           THEN "" ELSE "IndexError",
   meta |-> [length |-> ACE.NXS[1],
             NE |-> ACE.NXS[3],
             Emax |-> Round1(Rd(ACE.XSS, ACE.NXS[3])),
             GPD |-> (ACE.JXS[12] # 0) \/ (ACE.JXS[13] # 0),
             nubar |-> IF ACE.JXS[2] # 0
                       THEN (IF Rd(ACE.XSS, ACE.JXS[2] - 1) > 0
                             THEN "nubar" ELSE "both")
                       ELSE "no",
             CP |-> ACE.NXS[7] > 0,
             DN |-> ACE.JXS[24] > 0,
             UR |-> ACE.JXS[23] > 0]]

MetaInit ==
  /\ inp \in MetaTables
  /\ pc = "loaded"
  /\ fileOpen = FALSE
  /\ opens = 0
  /\ obj = [ZAID |-> inp.ZAID]
  /\ warned = << >>
  /\ blocks = << >>
  /\ err = NoErr

\* DataDirectory._fastNeutron(index) of listing.py: returns meta, which
\* starts with the ZAID of the row (obj is the row, then the row's meta)
DataDirectoryFastNeutron ==
  /\ pc = "loaded"
  /\ \E r \in {fastNeutron(inp)} :
       IF r.err # ""
       THEN Raise(r.err) /\ UNCHANGED obj
       ELSE /\ pc' = "listing"
            /\ obj' = [ZAID |-> inp.ZAID] @@ r.meta
            /\ UNCHANGED err
  /\ UNCHANGED <<inp, fileOpen, opens, warned, blocks>>

\* fastNeutron(XSDIR, index) of metadata.py: writes the columns of the row
MetadataFastNeutron ==
  /\ pc = "loaded"
  /\ \E r \in {fastNeutron(inp)} :
       IF r.err # ""
       THEN Raise(r.err) /\ UNCHANGED obj
       ELSE /\ pc' = "metadata"
            /\ obj' = obj @@ r.meta
            /\ UNCHANGED err
  /\ UNCHANGED <<inp, fileOpen, opens, warned, blocks>>

MetaNext == DataDirectoryFastNeutron \/ MetadataFastNeutron

SpecMeta == MetaInit /\ [][MetaNext]_vars

\* C30: the Emax metadata recorded for a fast-neutron table is the last
\* (largest) value of the table's energy grid, the XSS cell at the 1-based
\* position JXS[1]+NXS[3]-1 (to the one decimal the tools keep), and never
\* a cell of the total cross-section array that follows the grid.
C30_EmaxIsLastEnergy ==
  pc # "loaded" =>
    /\ pc \in {"listing", "metadata"}
    /\ obj.Emax = Round1(inp.XSS[inp.JXS[1] + inp.NXS[3] - 1])
    /\ \A i \in 1..inp.NXS[3] :
         obj.Emax # Round1(inp.XSS[inp.JXS[1] + inp.NXS[3] - 1 + i])

====
